---------------------------- MODULE Spec2Model ----------------------------
(***************************************************************************)
(* Batch-Toolchain: the debug execution engine (run_debugger_dap), the     *)
(* debug context (DebugContext) it shares with the DAP session under one   *)
(* mutex, and the session's request handlers.                              *)
(*                                                                         *)
(* Two threads are modelled.  The execution thread is a program counter    *)
(* `epc` over the blocks of run_debugger_dap; every critical section of    *)
(* the source (one `ctx_arc.lock()` guard) is one action, except the       *)
(* execute block, whose guard lives across the shell call: there the lock  *)
(* is taken by one action and given back by the action that handles the    *)
(* shell's answer.  The session thread's handlers each take the lock for   *)
(* their whole body, so each is one action enabled when the lock is free.  *)
(*                                                                         *)
(* Strings whose content the code inspects (variable values, expressions)  *)
(* are tuples of one-character strings, so that trim and case folding are  *)
(* computed, not assumed.  Option<T> is a tuple of length 0 (None) or 1.   *)
(***************************************************************************)
EXTENDS Integers, Sequences, FiniteSets, TLC

VARIABLES
    script,                 \* index of the launched script in Scripts
    \* ---- DebugContext (context.rs:7-20)
    variables,              \* global variable map
    call_stack,             \* Vec<Frame>
    last_exit_code,
    breakpoints,            \* Breakpoints.points: line -> Breakpoint
    mode,
    step_out_target_depth,
    continue_requested,
    current_line,           \* Option<usize>
    data_breakpoints,       \* name -> previous value
    data_breakpoint_hit,    \* Option<(name, old, new)>
    \* ---- Arc<Mutex<DebugContext>> and the shell adapter owned by the context
    lock,                   \* "free" or the holder
    shell,                  \* "idle", or "busy" while CmdSession::run executes
    \* ---- locals of run_debugger_dap
    epc,                    \* position of the execution thread
    pc,
    step_depth,             \* Option<usize>
    wait_count,
    forIdx,                 \* index of the FOR iteration being executed
    \* ---- the two mpsc channels between engine and session
    event_ch,
    output_ch,
    \* ---- the editor on the other side of the DAP connection
    editor,                 \* what the editor was last told: "running", "stopped", "terminated"
    ret,                    \* what the last direct call of a context operation returned
    requests,               \* pause, setBreakpoints and setDataBreakpoints requests handled so far
    \* ---- DapServer: the output stream (server.rs:112-172) and the watch list
    seq,                    \* the sequence counter
    sent,                   \* seq of every message written so far, in order
    response,               \* Option: success flag and body of the last response written
    watch_expressions,      \* Vec<String>
    \* ---- the directory stack of the context and the process's current directory
    directory_stack,        \* Vec<String>
    cwd,                    \* env::current_dir(), a path as a tuple of names
    \* ---- the command interpreter behind ctx.session
    session_env,            \* Option: the interpreter's own value of the variable V
    session_log,            \* the texts CmdSession::run was called with, in order, where
                            \* the interpreter is modelled with its environment
    \* ---- history (never read by an action's guard or effect on the program)
    shellTick,              \* flips whenever the engine starts a shell run
    hist                    \* record of observations used by the properties

ctxVars == <<variables, call_stack, last_exit_code, breakpoints, mode,
             step_out_target_depth, continue_requested, current_line,
             data_breakpoints, data_breakpoint_hit>>
engVars == <<epc, pc, step_depth, wait_count, forIdx>>
chanVars == <<event_ch, output_ch>>
envVars == <<script, ret, editor, requests>>
histVars == <<shellTick, hist>>
srvVars == <<seq, sent, response, watch_expressions>>
dirVars == <<directory_stack, cwd>>
cmdVars == <<session_env, session_log>>
vars == <<envVars, ctxVars, lock, shell, engVars, chanVars, histVars, srvVars, dirVars,
          cmdVars>>

\* DapServer::new and DebugContext::new for what the engine does not touch: no
\* message written, no watch, an empty directory stack; the process starts in
\* the directory <<"r">>
FreshSession ==
    /\ seq = 0
    /\ sent = <<>>
    /\ response = <<>>
    /\ watch_expressions = <<>>
    /\ directory_stack = <<>>
    /\ cwd = <<"r">>
    /\ session_env = <<>>
    /\ session_log = <<>>

\* a step that writes no message and leaves the watch list and the
\* directories alone
Quiet == UNCHANGED <<srvVars, dirVars, cmdVars>>

-----------------------------------------------------------------------------
(* Bounds *)

\* the watchdog of the wait loop, scaled down from 6000 polls
MaxWaitPolls == 1
\* deepest call stack built through direct calls of the context operations
MaxApiDepth == 1
\* hit count up to which should_stop_at is called directly
MaxHitCount == 2
\* number of pause, setBreakpoints and setDataBreakpoints requests the editor
\* sends after launch
MaxRequests == 2
\* deepest call stack built when the scope operations are called directly
MaxScopeDepth == 2
\* number of messages the session writes when its handlers are followed
\* through the output stream
MaxMessages == 3

-----------------------------------------------------------------------------
(* Option and string helpers *)

None == <<>>
Some(x) == <<x>>
IsSome(o) == Len(o) = 1
Unwrap(o) == o[1]

Last(s) == s[Len(s)]
Front(s) == SubSeq(s, 1, Len(s) - 1)

UpperLetters == <<"A","B","C","D","E","F","G","H","I","J","K","L","M",
                  "N","O","P","Q","R","S","T","U","V","W","X","Y","Z">>
LowerLetters == <<"a","b","c","d","e","f","g","h","i","j","k","l","m",
                  "n","o","p","q","r","s","t","u","v","w","x","y","z">>

\* u8::to_ascii_lowercase
ToAsciiLower(c) ==
    IF \E i \in DOMAIN UpperLetters : UpperLetters[i] = c
    THEN LowerLetters[CHOOSE i \in DOMAIN UpperLetters : UpperLetters[i] = c]
    ELSE c

\* str::eq_ignore_ascii_case
EqIgnoreAsciiCase(a, b) ==
    /\ Len(a) = Len(b)
    /\ \A i \in DOMAIN a : ToAsciiLower(a[i]) = ToAsciiLower(b[i])

IsWhitespace(c) == c \in {" ", "\t", "\r", "\n"}

RECURSIVE TrimStart(_)
TrimStart(s) ==
    IF s # <<>> /\ IsWhitespace(Head(s)) THEN TrimStart(Tail(s)) ELSE s

RECURSIVE TrimEnd(_)
TrimEnd(s) ==
    IF s # <<>> /\ IsWhitespace(Last(s)) THEN TrimEnd(Front(s)) ELSE s

\* str::trim
Trim(s) == TrimEnd(TrimStart(s))

Contains(s, c) == \E i \in DOMAIN s : s[i] = c

Digits == <<"0","1","2","3","4","5","6","7","8","9">>

RECURSIVE NatToStr(_)
NatToStr(n) ==
    IF n < 10 THEN <<Digits[n + 1]>>
    ELSE NatToStr(n \div 10) \o <<Digits[(n % 10) + 1]>>

\* i32::to_string
IntToStr(n) == IF n < 0 THEN <<"-">> \o NatToStr(-n) ELSE NatToStr(n)

-----------------------------------------------------------------------------
(* The launched script: PreprocessResult.logical, one record per logical    *)
(* line.  `op` is the branch of the engine's dispatch chain that the line's *)
(* text selects (label / comment tests at dap_runner.rs:127-142, then the   *)
(* starts_with chain at 336-445, otherwise a plain command).                *)

Ln(op) == [op |-> op, label |-> "", code |-> 0, key |-> <<>>, val |-> <<>>, n |-> 0]

LabelLine(l) == [Ln("label") EXCEPT !.label = l]       \* :l
RemLine == Ln("rem")                                   \* REM ... or :: ...
Setlocal == Ln("setlocal")                             \* SETLOCAL
Endlocal == Ln("endlocal")                             \* ENDLOCAL
Call(l) == [Ln("call") EXCEPT !.label = l]             \* CALL :l
ExitB(c) == [Ln("exitb") EXCEPT !.code = c]            \* EXIT /B c
Goto(l) == [Ln("goto") EXCEPT !.label = l]             \* GOTO l
Echo == Ln("cmd")                                      \* any plain command
Set(k, v) == [Ln("set") EXCEPT !.key = k, !.val = v]   \* SET k=v
ForL(n) == [Ln("for") EXCEPT !.n = n]                  \* FOR /L %%i IN (1,1,n) DO echo %%i

V == <<"V">>
LoopVar == <<"%", "%", "i">>

\* a subroutine with its own scope that returns by running past the last
\* line; EXIT /B at top level
ScriptCall ==
    << Call("sub"), Set(V, <<"1">>), ExitB(0),
       LabelLine("sub"), Setlocal, Set(V, <<"2">>), Endlocal >>

\* nested calls; returns by GOTO :EOF and by EXIT /B; GOTO :EOF at top level
ScriptNested ==
    << Call("a"), Goto("eof"),
       LabelLine("a"), Call("b"), ExitB(1),
       LabelLine("b"), RemLine, Goto("eof") >>

\* CALL to a label nobody defines
ScriptBadCall == << Echo, Call("nowhere"), Echo >>

\* GOTO to a label nobody defines, from inside a subroutine
ScriptBadGoto == << Call("sub"), Echo, LabelLine("sub"), Goto("missing"), Echo >>

\* FOR expansion at top level; the CALL is the last logical line, so its frame
\* returns past the end of the script
ScriptFor == << ForL(2), Goto("main"),
                LabelLine("sub"), ExitB(0),
                LabelLine("main"), Call("sub") >>

\* a comment and a label before the first command
ScriptEntry == << RemLine, LabelLine("start"), Set(V, <<"1">>) >>

Scripts == << ScriptCall, ScriptNested, ScriptBadCall, ScriptBadGoto, ScriptFor,
              ScriptEntry >>

\* pre.logical
Logical == Scripts[script]
\* pre.logical.len()
NumLines == Len(Logical)
\* pre.logical[pc] (logical lines are counted from 0)
LineAt(p) == Logical[p + 1]

\* build_label_map: lowercased label name -> physical index of its first
\* occurrence
LabelsPhys ==
    LET names == {Logical[i].label : i \in {j \in DOMAIN Logical : Logical[j].op = "label"}}
    IN  [l \in names |->
            (CHOOSE i \in DOMAIN Logical :
                /\ Logical[i].op = "label" /\ Logical[i].label = l
                /\ \A j \in DOMAIN Logical :
                       (Logical[j].op = "label" /\ Logical[j].label = l) => i <= j) - 1]

\* pre.phys_to_logical: the scripts above have no continuation lines, so every
\* physical line is its own logical line
PhysToLogical == [p \in 0 .. NumLines - 1 |-> p]

-----------------------------------------------------------------------------
(* The shell adapter: CmdSession::run answers Ok((output, exit_code)) or    *)
(* Err.  The shell is an external process, so every answer is possible.     *)

ShellErr == [ok |-> FALSE, out |-> <<>>, code |-> 0]
\* a successful run prints something and exits with 0, or prints nothing and
\* exits with 1
ShellOk(o, c) == [ok |-> TRUE, out |-> o, code |-> c]
ShellAnswers ==
    {ShellErr, ShellOk(<<"o", "k", "\r", "\n">>, 0), ShellOk(<<>>, 1)}

-----------------------------------------------------------------------------
(* DebugContext *)

EmptyMap == [k \in {} |-> <<>>]
Insert(m, k, v) == (k :> v) @@ m

RunModes == {"Continue", "StepOver", "StepInto", "StepOut"}

\* Frame::new
NewFrame(return_pc, args) ==
    [return_pc |-> return_pc, args |-> args, locals |-> EmptyMap, has_setlocal |-> FALSE]

\* faulty variant of NewBreakpoint: the counter starts at one
NewBreakpointCounted(line, condition) ==
    [line |-> line, condition |-> condition, hit_count |-> 1]

\* Breakpoints::add_with_condition builds this value
NewBreakpoint(line, condition) ==
    [line |-> line, condition |-> condition, hit_count |-> 0]

\* call_stack.last() is Some and frame.has_setlocal
TopHasSetlocal(stack) == stack # <<>> /\ Last(stack).has_setlocal

\* DebugContext::get_visible_variables
GetVisibleVariables(vars_, stack) ==
    IF TopHasSetlocal(stack) THEN Last(stack).locals @@ vars_ ELSE vars_

\* DebugContext::handle_setlocal
HandleSetlocal(stack) ==
    IF stack # <<>>
    THEN [stack EXCEPT ![Len(stack)].has_setlocal = TRUE]
    ELSE stack

\* faulty variant of HandleEndlocal: the scope is closed, its locals stay
HandleEndlocalKeeping(stack) ==
    IF TopHasSetlocal(stack)
    THEN [stack EXCEPT ![Len(stack)].has_setlocal = FALSE]
    ELSE stack

\* DebugContext::handle_endlocal
HandleEndlocal(stack) ==
    IF TopHasSetlocal(stack)
    THEN [stack EXCEPT ![Len(stack)].locals = EmptyMap,
                       ![Len(stack)].has_setlocal = FALSE]
    ELSE stack

\* faulty variant of StoreVar: without a scope on the top frame, the write
\* goes to the nearest frame below that has one
StoreVarNearestScope(vars_, stack, key, val) ==
    LET scoped == {i \in DOMAIN stack : stack[i].has_setlocal}
    IN  IF scoped # {}
        THEN LET i == CHOOSE j \in scoped : \A k \in scoped : k <= j
             IN  [variables |-> vars_,
                  call_stack |-> [stack EXCEPT ![i].locals = Insert(@, key, val)]]
        ELSE [variables |-> Insert(vars_, key, val), call_stack |-> stack]

\* the store shared by track_set_command (plain SET), set_variable and
\* set_loop_variable: the top frame's locals under SETLOCAL, else the globals.
\* Returns the pair of tables after the write.
StoreVar(vars_, stack, key, val) ==
    IF TopHasSetlocal(stack)
    THEN [variables |-> vars_,
          call_stack |-> [stack EXCEPT ![Len(stack)].locals = Insert(@, key, val)]]
    ELSE [variables |-> Insert(vars_, key, val), call_stack |-> stack]

\* DebugContext::track_set_command on the line `SET key=val`
TrackSetCommand(vars_, stack, line) ==
    IF /\ line.op = "set"
       /\ line.key # <<>>
       /\ ~ \E c \in {"+", "-", "*", "/"} : Contains(line.key, c)
    THEN StoreVar(vars_, stack, line.key, Trim(line.val))
    ELSE [variables |-> vars_, call_stack |-> stack]

\* DebugContext::set_loop_variable
SetLoopVariable(vars_, stack, name, value) == StoreVar(vars_, stack, name, value)

\* leave_context: the stack after the pop and the Option<usize> it returns
LeaveContext(stack) ==
    IF stack # <<>>
    THEN [call_stack |-> Front(stack), next_pc |-> Some(Last(stack).return_pc)]
    ELSE [call_stack |-> stack, next_pc |-> None]

ErrorLevelName == <<"E","R","R","O","R","L","E","V","E","L">>

\* faulty variant of EvaluateExpression: every expression is handed to the
\* shell
EvaluateExpressionViaShell(vars_, stack, exit_code, expression, ans) ==
    IF ans.ok
    THEN [ok |-> TRUE, value |-> Trim(ans.out), ran |-> TRUE, exit |-> ans.code]
    ELSE [ok |-> FALSE, value |-> <<>>, ran |-> TRUE, exit |-> exit_code]

\* DebugContext::evaluate_expression; `ans` is what the shell answers if the
\* expression reaches `echo <expr>`.  ran says whether the shell was called.
EvaluateExpression(vars_, stack, exit_code, expression, ans) ==
    LET expr == Trim(expression)
        visible == GetVisibleVariables(vars_, stack)
        viaShell ==
            IF ans.ok
            THEN [ok |-> TRUE, value |-> Trim(ans.out), ran |-> TRUE, exit |-> ans.code]
            ELSE [ok |-> FALSE, value |-> <<>>, ran |-> TRUE, exit |-> exit_code]
        found(v) == [ok |-> TRUE, value |-> v, ran |-> FALSE, exit |-> exit_code]
    IN  IF \/ EqIgnoreAsciiCase(expr, ErrorLevelName)
           \/ expr = <<"%">> \o ErrorLevelName \o <<"%">>
        THEN found(IntToStr(exit_code))
        ELSE IF Len(expr) > 2 /\ Head(expr) = "%" /\ Last(expr) = "%"
        THEN LET var_name == SubSeq(expr, 2, Len(expr) - 1)
             IN  IF ~ Contains(var_name, ":") /\ var_name \in DOMAIN visible
                 THEN found(visible[var_name])
                 ELSE viaShell
        ELSE IF /\ ~ \E c \in {" ", "=", "&", ":"} : Contains(expr, c)
                /\ expr \in DOMAIN visible
        THEN found(visible[expr])
        ELSE viaShell

FalseWord == <<"f","a","l","s","e">>

\* faulty variant of ConditionIsTrue: the word "false" is matched exactly
ConditionIsTrueExact(result) ==
    LET result_trimmed == Trim(result)
    IN  /\ result_trimmed # <<>>
        /\ result_trimmed # <<"0">>
        /\ result_trimmed # FalseWord

\* the truth test of a breakpoint condition's value (context.rs:341-345)
ConditionIsTrue(result) ==
    LET result_trimmed == Trim(result)
    IN  /\ result_trimmed # <<>>
        /\ result_trimmed # <<"0">>
        /\ ~ EqIgnoreAsciiCase(result_trimmed, FalseWord)

\* what should_stop_at answers when evaluating the condition fails
\* (context.rs:359-363)
StopOnConditionError == TRUE

\* DebugContext::should_stop_at: the answer, the breakpoint table and exit code
\* after the call, and the evaluation it made (None if it made none)
ShouldStopAt(vars_, stack, exit_code, bps, mode_, target_depth, p, ans) ==
    LET same(stop) == [stop |-> stop, breakpoints |-> bps, last_exit_code |-> exit_code,
                       eval |-> None]
    IN  CASE mode_ = "Continue" ->
                IF p \notin DOMAIN bps THEN same(FALSE)
                ELSE LET condition_opt == bps[p].condition
                         counted == [bps EXCEPT ![p].hit_count = @ + 1]
                     IN  IF IsSome(condition_opt)
                         THEN LET r == EvaluateExpression(vars_, stack, exit_code,
                                                          Unwrap(condition_opt), ans)
                              IN  [stop |-> IF r.ok THEN ConditionIsTrue(r.value)
                                                    ELSE StopOnConditionError,
                                   breakpoints |-> counted,
                                   last_exit_code |-> r.exit,
                                   eval |-> Some(r)]
                         ELSE [stop |-> TRUE, breakpoints |-> counted,
                               last_exit_code |-> exit_code, eval |-> None]
          [] mode_ \in {"StepOver", "StepInto"} -> same(TRUE)
          [] mode_ = "StepOut" -> same(Len(stack) <= target_depth)

\* DebugContext::check_data_breakpoints: the set of hits it may record (the
\* HashMap is walked in no particular order and the first mismatch wins)
DataBreakpointHits(vars_, stack, dbps) ==
    LET visible == GetVisibleVariables(vars_, stack)
        cur(n) == IF n \in DOMAIN visible THEN visible[n] ELSE <<>>
    IN  { <<n, dbps[n], cur(n)>> : n \in {m \in DOMAIN dbps : cur(m) # dbps[m]} }

\* faulty variant of UpdateDataBreakpoints: the stored values are kept
UpdateNothing(vars_, stack, dbps) == dbps

\* DebugContext::update_data_breakpoints
UpdateDataBreakpoints(vars_, stack, dbps) ==
    LET visible == GetVisibleVariables(vars_, stack)
    IN  [n \in DOMAIN dbps |-> IF n \in DOMAIN visible THEN visible[n] ELSE <<>>]

\* DebugContext::add_data_breakpoint
AddDataBreakpoint(vars_, stack, dbps, name) ==
    LET visible == GetVisibleVariables(vars_, stack)
    IN  Insert(dbps, name, IF name \in DOMAIN visible THEN visible[name] ELSE <<>>)

\* DebugContext::set_mode: the (mode, step_out_target_depth) pair after the call
SetMode(new_mode, stack, target_depth) ==
    [mode |-> new_mode, step_out_target_depth |-> target_depth]

\* usize::saturating_sub(1)
SaturatingDec(n) == IF n = 0 THEN 0 ELSE n - 1

\* faulty variant of HandleStepCommand: the stepOut target is one above the
\* current depth
HandleStepCommandAbove(step_type, mode_, stack, target_depth) ==
    CASE step_type = "continue" ->
            [mode |-> "Continue", step_out_target_depth |-> target_depth]
      [] step_type \in {"next", "stepOver"} ->
            [mode |-> "StepOver", step_out_target_depth |-> target_depth]
      [] step_type \in {"stepIn", "stepInto"} ->
            [mode |-> "StepInto", step_out_target_depth |-> target_depth]
      [] step_type = "stepOut" ->
            [mode |-> "StepOut", step_out_target_depth |-> Len(stack) + 1]
      [] OTHER -> [mode |-> mode_, step_out_target_depth |-> target_depth]

\* DebugContext::handle_step_command
HandleStepCommand(step_type, mode_, stack, target_depth) ==
    CASE step_type = "continue" ->
            [mode |-> "Continue", step_out_target_depth |-> target_depth]
      [] step_type \in {"next", "stepOver"} ->
            [mode |-> "StepOver", step_out_target_depth |-> target_depth]
      [] step_type \in {"stepIn", "stepInto"} ->
            [mode |-> "StepInto", step_out_target_depth |-> target_depth]
      [] step_type = "stepOut" ->
            [mode |-> "StepOut", step_out_target_depth |-> SaturatingDec(Len(stack))]
      [] OTHER -> [mode |-> mode_, step_out_target_depth |-> target_depth]


-----------------------------------------------------------------------------
(* History: what the properties observe.  No action reads it to decide what *)
(* the program does.                                                        *)

HistInit ==
    [ pending    |-> FALSE,  \* a resume request raised after the stop event, not yet consumed
      step       |-> None,   \* depth at which the editor's `next`, still in force, was issued
      out        |-> None,   \* depth at which the editor's `stepOut`, still in force, was issued
      sites      |-> <<>>,   \* per frame: the pc of its CALL and the depth before it
      endCause   |-> "",     \* why the run loop was left
      endPc      |-> 0,
      failed     |-> FALSE,  \* a shell run made for a script line failed
      terminated |-> 0,      \* number of `terminated` events sent
      marks      |-> <<>>,   \* per event on event_ch: how many messages now on
                             \* output_ch the engine sent before it
      prior      |-> 0,      \* that number for the event last forwarded, when
                             \* the session took it
      shellCode  |-> <<>>,   \* exit code the shell returned for the latest run a
                             \* directly called context operation made, if any
      base       |-> EmptyMap, \* per data breakpoint: the visible value of its variable
                             \* when it was added or last updated
      moved      |-> {},     \* data breakpoints whose variable a command has changed
                             \* since then
      fired      |-> FALSE,  \* check_data_breakpoints has answered true since the
                             \* last such change
      entry      |-> FALSE,  \* stopOnEntry of the launch request
      ran        |-> FALSE,  \* a script line went to the shell before the engine's
                             \* first event
      first      |-> <<>>,   \* the first event the engine sent, and `ran` then
      overridden |-> FALSE ] \* a continue request was handled before that event

-----------------------------------------------------------------------------
(* State after DapServer::handle_launch has built the context and spawned   *)
(* the execution thread (server.rs:316-403).                                *)

\* faulty variant of LaunchMode: the two modes are swapped
LaunchModeSwapped(stop_on_entry) == IF stop_on_entry THEN "Continue" ELSE "StepInto"

\* `if stop_on_entry { ctx.set_mode(RunMode::StepInto) } else
\* { ctx.set_mode(RunMode::Continue) }`
LaunchMode(stop_on_entry) == IF stop_on_entry THEN "StepInto" ELSE "Continue"

Init ==
    /\ script \in DOMAIN Scripts
    /\ ret = None
    /\ editor = "launching"
    /\ requests = 0
    /\ variables = EmptyMap
    /\ call_stack = <<>>
    /\ last_exit_code = 0
    /\ breakpoints = EmptyMap
    /\ \E stop_on_entry \in BOOLEAN :
         /\ mode = LaunchMode(stop_on_entry)
         /\ hist = [HistInit EXCEPT !.entry = stop_on_entry]
    /\ step_out_target_depth = 0
    /\ continue_requested = FALSE
    /\ current_line = None
    /\ data_breakpoints = EmptyMap
    /\ data_breakpoint_hit = None
    /\ lock = "free"
    /\ shell = "idle"
    /\ epc = "top"
    /\ pc = 0
    /\ step_depth = None
    /\ wait_count = 0
    /\ forIdx = 0
    /\ event_ch = <<>>
    /\ output_ch = <<>>
    /\ shellTick = FALSE
    /\ FreshSession

-----------------------------------------------------------------------------
(* run_debugger_dap: helpers *)

OutMsg(kind, text, n) == [kind |-> kind, text |-> text, n |-> n]

\* `if !out.trim().is_empty() { output_tx.send(out) }`
SendOutput(ch, out) == IF Trim(out) # <<>> THEN Append(ch, OutMsg("out", out, 0)) ELSE ch

\* faulty variant of LabelTarget: an unknown label leads to the first line
LabelTargetOrStart(label_key) ==
    IF label_key \in DOMAIN LabelsPhys
    THEN Some(PhysToLogical[LabelsPhys[label_key]])
    ELSE Some(0)

\* labels_phys.get(&label_key) then pre.phys_to_logical[phys_target]
LabelTarget(label_key) ==
    IF label_key \in DOMAIN LabelsPhys
    THEN Some(PhysToLogical[LabelsPhys[label_key]])
    ELSE None

\* faulty variant of CallReturnPc: the CALL's own line is stored
CallReturnSame(p) == p

\* the return address a CALL at pc p stores: Frame::new(pc + 1, ..)
CallReturnPc(p) == p + 1

\* faulty variant of ResumeSeen: the wait loop ends at its first poll
ResumeAlways(requested) == TRUE

\* the test that ends the wait loop: `if ctx.continue_requested`
ResumeSeen(requested) == requested

\* faulty variant of TerminatedEvent: the event carries the current pc
TerminatedAtPc == <<"terminated", pc>>

\* the event sent when the run loop is left
TerminatedEvent == <<"terminated", 0>>

\* stop_reason of a stop decided by should_stop
StopReason(mode_) == IF mode_ = "Continue" THEN "breakpoint" ELSE "step"

\* the StepOver arm of the stop decision (dap_runner.rs:164-170)
StepOverStops(depth_opt, stack) ==
    IF IsSome(depth_opt) THEN Len(stack) <= Unwrap(depth_opt) ELSE TRUE

\* step_depth after the wait loop saw the resume request
ResumeStepDepth(mode_, stack) == IF mode_ = "StepOver" THEN Some(Len(stack)) ELSE None

\* history of `event` sent on the event channel while `ch` is the output channel
EventSent(h, ch, event) ==
    [h EXCEPT !.marks = Append(@, Len(ch)),
              !.first = IF @ = <<>> THEN << [event |-> event, ran |-> h.ran] >> ELSE @]

\* history of the session taking k messages off the output channel
OutputTaken(h, k) ==
    [h EXCEPT !.marks = [i \in DOMAIN @ |-> IF @[i] > k THEN @[i] - k ELSE 0]]

\* faulty variant of IsSkipped: comment lines are treated as commands
IsSkippedLabel(line) == line.op = "label"

\* `line.trim().starts_with(':')`, `line_upper.starts_with("REM ")`,
\* `line.trim().starts_with("::")` (dap_runner.rs:127-142)
IsSkipped(line) == line.op \in {"label", "rem"}

Ended(cause) == [hist EXCEPT !.endCause = cause, !.endPc = pc, !.pending = FALSE,
                             !.step = None, !.out = None]

\* the frame pop shared by the unwinding loop, EXIT /B and GOTO :EOF:
\* `match leave_context(..) { Some(next_pc) => pc = next_pc, None => break 'run }`
LeaveOrEnd(cause) ==
    LET r == LeaveContext(call_stack)
    IN  /\ call_stack' = r.call_stack
        /\ IF IsSome(r.next_pc)
           THEN /\ pc' = Unwrap(r.next_pc)
                /\ epc' = "top"
                /\ hist' = [hist EXCEPT !.sites = Front(@)]
           ELSE /\ pc' = pc
                /\ epc' = "term"
                /\ hist' = Ended(cause)

-----------------------------------------------------------------------------
(* run_debugger_dap: the actions of the execution thread *)

\* `while pc >= pre.logical.len()`: one pass of the unwinding loop
EofUnwind ==
    /\ epc = "top" /\ pc >= NumLines /\ lock = "free"
    /\ LeaveOrEnd("eof")
    /\ UNCHANGED <<envVars, variables, last_exit_code, breakpoints, mode,
                   step_out_target_depth, continue_requested, current_line,
                   data_breakpoints, data_breakpoint_hit, lock, shell, step_depth,
                   wait_count, forIdx, chanVars, shellTick>>

\* a label or comment line: `pc += 1; continue`
SkipLine ==
    /\ epc = "top" /\ pc < NumLines /\ IsSkipped(LineAt(pc))
    /\ pc' = pc + 1
    /\ UNCHANGED <<envVars, ctxVars, lock, shell, epc, step_depth, wait_count, forIdx,
                   chanVars, histVars>>

\* the `should_stop` block (dap_runner.rs:143-180), one critical section
DecideStop ==
    /\ epc = "top" /\ pc < NumLines /\ ~ IsSkipped(LineAt(pc)) /\ lock = "free"
    /\ \E ans \in ShellAnswers :
         LET r == ShouldStopAt(variables, call_stack, last_exit_code, breakpoints, mode,
                               step_out_target_depth, pc, ans)
             viaCtx == mode \in {"Continue", "StepOut"}
             ran == viaCtx /\ IsSome(r.eval) /\ Unwrap(r.eval).ran
             stop == CASE mode = "Continue" -> r.stop
                       [] mode = "StepInto" -> TRUE
                       [] mode = "StepOver" -> StepOverStops(step_depth, call_stack)
                       [] mode = "StepOut" -> r.stop
         IN  /\ breakpoints' = IF viaCtx THEN r.breakpoints ELSE breakpoints
             /\ last_exit_code' = IF viaCtx THEN r.last_exit_code ELSE last_exit_code
             /\ shellTick' = IF ran THEN ~ shellTick ELSE shellTick
             /\ epc' = IF stop THEN "send" ELSE "exec"
             /\ hist' = [hist EXCEPT !.step = IF stop THEN None ELSE @,
                                   !.out = IF stop THEN None ELSE @]
    /\ UNCHANGED <<envVars, variables, call_stack, mode, step_out_target_depth,
                   continue_requested, current_line, data_breakpoints,
                   data_breakpoint_hit, lock, shell, pc, step_depth, wait_count, forIdx,
                   chanVars>>

\* read the stop reason under the lock and send the stop event
\* (dap_runner.rs:200-221)
SendStopped ==
    /\ epc = "send" /\ lock = "free"
    /\ event_ch' = Append(event_ch, <<StopReason(mode), pc>>)
    /\ epc' = "clear"
    /\ hist' = EventSent(hist, output_ch, <<StopReason(mode), pc>>)
    /\ UNCHANGED <<envVars, ctxVars, lock, shell, pc, step_depth, wait_count, forIdx,
                   output_ch, shellTick>>

\* `ctx.continue_requested = false; ctx.current_line = Some(pc)`
\* (dap_runner.rs:228-253)
ClearContinue ==
    /\ epc = "clear" /\ lock = "free"
    /\ continue_requested' = FALSE
    /\ current_line' = Some(pc)
    /\ wait_count' = 0
    /\ epc' = "wait"
    /\ UNCHANGED <<envVars, variables, call_stack, last_exit_code, breakpoints, mode,
                   step_out_target_depth, data_breakpoints, data_breakpoint_hit, lock,
                   shell, pc, step_depth, forIdx, chanVars, histVars>>

\* faulty variant of WatchdogExpired: the watchdog fires one poll late
WatchdogLate(count) == count > MaxWaitPolls + 1

\* `if wait_count > 6000`, tested right after `wait_count += 1`
WatchdogExpired(count) == count > MaxWaitPolls

\* one pass of the wait loop (dap_runner.rs:259-312)
WaitPoll ==
    /\ epc = "wait"
    /\ IF WatchdogExpired(wait_count + 1)
       THEN /\ epc' = "term"
            /\ wait_count' = 0
            /\ hist' = Ended("watchdog")
            /\ UNCHANGED step_depth
       ELSE /\ lock = "free"
            /\ IF ResumeSeen(continue_requested)
               THEN /\ step_depth' = ResumeStepDepth(mode, call_stack)
                    /\ epc' = "exec"
                    /\ wait_count' = 0
                    /\ hist' = [hist EXCEPT !.pending = FALSE]
               ELSE /\ wait_count' = wait_count + 1
                    /\ UNCHANGED <<step_depth, epc, hist>>
    /\ UNCHANGED <<envVars, ctxVars, lock, shell, pc, forIdx, chanVars, shellTick>>

\* the event sent after the run loop (dap_runner.rs:680-687)
SendTerminated ==
    /\ epc = "term"
    /\ event_ch' = Append(event_ch, TerminatedEvent)
    /\ epc' = "done"
    /\ hist' = [EventSent(hist, output_ch, TerminatedEvent) EXCEPT !.terminated = @ + 1]
    /\ UNCHANGED <<envVars, ctxVars, lock, shell, pc, step_depth, wait_count, forIdx,
                   output_ch, shellTick>>

-----------------------------------------------------------------------------
(* The execute block (dap_runner.rs:319-675).  Its guard `ctx` is taken at  *)
(* line 325 and lives until the block is left, across every run_command.    *)

\* ctx.run_command(..) is entered: the shell starts working, the guard is held
StartShellRun ==
    /\ lock' = "exec"
    /\ shell' = "busy"
    /\ epc' = "shell"
    /\ shellTick' = ~ shellTick
    /\ hist' = [hist EXCEPT !.ran = IF hist.first = <<>> THEN TRUE ELSE @]

\* the block is left for the next round of the run loop at line `next`
LeaveBlock(next) ==
    /\ pc' = next
    /\ epc' = "top"
    /\ lock' = "free"
    /\ shell' = "idle"

\* SETLOCAL / ENDLOCAL up to the shell call (dap_runner.rs:336-338, 348-350)
ExecScope ==
    /\ epc = "exec" /\ lock = "free"
    /\ LineAt(pc).op \in {"setlocal", "endlocal"}
    /\ call_stack' = IF LineAt(pc).op = "setlocal"
                     THEN HandleSetlocal(call_stack)
                     ELSE HandleEndlocal(call_stack)
    /\ StartShellRun
    /\ UNCHANGED <<envVars, variables, last_exit_code, breakpoints, mode,
                   step_out_target_depth, continue_requested, current_line,
                   data_breakpoints, data_breakpoint_hit, pc, step_depth, wait_count,
                   forIdx, chanVars>>

\* CALL (dap_runner.rs:360-376)
ExecCall ==
    /\ epc = "exec" /\ lock = "free"
    /\ LineAt(pc).op = "call"
    /\ LET target == LabelTarget(LineAt(pc).label)
       IN  IF IsSome(target)
           THEN /\ call_stack' = Append(call_stack, NewFrame(CallReturnPc(pc), Some(<<>>)))
                /\ pc' = Unwrap(target)
                /\ epc' = "top"
                /\ hist' = [hist EXCEPT !.sites = Append(@, [pc |-> pc,
                                                             depth |-> Len(call_stack)])]
           ELSE /\ epc' = "term"
                /\ hist' = Ended("label")
                /\ UNCHANGED <<call_stack, pc>>
    /\ UNCHANGED <<envVars, variables, last_exit_code, breakpoints, mode,
                   step_out_target_depth, continue_requested, current_line,
                   data_breakpoints, data_breakpoint_hit, lock, shell, step_depth,
                   wait_count, forIdx, chanVars, shellTick>>

\* EXIT /B (dap_runner.rs:377-387)
ExecExitB ==
    /\ epc = "exec" /\ lock = "free"
    /\ LineAt(pc).op = "exitb"
    /\ last_exit_code' = LineAt(pc).code
    /\ LeaveOrEnd("exitb")
    /\ UNCHANGED <<envVars, variables, breakpoints, mode, step_out_target_depth,
                   continue_requested, current_line, data_breakpoints,
                   data_breakpoint_hit, lock, shell, step_depth, wait_count, forIdx,
                   chanVars, shellTick>>

\* GOTO (dap_runner.rs:388-413)
ExecGoto ==
    /\ epc = "exec" /\ lock = "free"
    /\ LineAt(pc).op = "goto"
    /\ IF LineAt(pc).label = "eof"
       THEN LeaveOrEnd("gotoeof")
       ELSE LET target == LabelTarget(LineAt(pc).label)
            IN  IF IsSome(target)
                THEN /\ pc' = Unwrap(target)
                     /\ epc' = "top"
                     /\ UNCHANGED <<call_stack, hist>>
                ELSE /\ epc' = "term"
                     /\ hist' = Ended("label")
                     /\ UNCHANGED <<call_stack, pc>>
    /\ UNCHANGED <<envVars, variables, last_exit_code, breakpoints, mode,
                   step_out_target_depth, continue_requested, current_line,
                   data_breakpoints, data_breakpoint_hit, lock, shell, step_depth,
                   wait_count, forIdx, chanVars, shellTick>>

\* one FOR iteration up to its shell call (dap_runner.rs:460-482): the loop
\* variable is set, the iteration is announced, the body is tracked
ForIterationPrelude(idx, ch) ==
    LET w == SetLoopVariable(variables, call_stack, LoopVar, IntToStr(idx))
        t == TrackSetCommand(w.variables, w.call_stack, Echo)
    IN  /\ variables' = t.variables
        /\ call_stack' = t.call_stack
        /\ output_ch' = Append(ch, OutMsg("iter", IntToStr(idx), idx))
        /\ forIdx' = idx

\* FOR, up to the first iteration's shell call (dap_runner.rs:445-482)
ExecFor ==
    /\ epc = "exec" /\ lock = "free"
    /\ LineAt(pc).op = "for"
    /\ LET announced == Append(output_ch, OutMsg("for", <<>>, LineAt(pc).n))
       IN  IF LineAt(pc).n = 0
           THEN /\ output_ch' = announced
                /\ pc' = pc + 1
                /\ epc' = "top"
                /\ UNCHANGED <<variables, call_stack, forIdx, lock, shell, histVars>>
           ELSE /\ ForIterationPrelude(1, announced)
                /\ StartShellRun
                /\ UNCHANGED pc
    /\ UNCHANGED <<envVars, last_exit_code, breakpoints, mode, step_out_target_depth,
                   continue_requested, current_line, data_breakpoints,
                   data_breakpoint_hit, step_depth, wait_count, event_ch>>

\* a plain command up to its shell call (dap_runner.rs:554-631)
ExecPlain ==
    /\ epc = "exec" /\ lock = "free"
    /\ LineAt(pc).op \in {"cmd", "set"}
    /\ LET t == TrackSetCommand(variables, call_stack, LineAt(pc))
       IN  /\ variables' = t.variables
           /\ call_stack' = t.call_stack
    /\ StartShellRun
    /\ UNCHANGED <<envVars, last_exit_code, breakpoints, mode, step_out_target_depth,
                   continue_requested, current_line, data_breakpoints,
                   data_breakpoint_hit, pc, step_depth, wait_count, forIdx, chanVars>>

\* a shell run made for a script line has failed
Failed == [hist EXCEPT !.failed = TRUE]

\* SETLOCAL / ENDLOCAL after `ctx.run_command(&line)?` (dap_runner.rs:338-346,
\* 350-358): the `?` returns the error from run_debugger_dap at once
ReturnScope ==
    /\ epc = "shell" /\ shell = "busy"
    /\ LineAt(pc).op \in {"setlocal", "endlocal"}
    /\ \E ans \in ShellAnswers :
         IF ans.ok
         THEN /\ output_ch' = SendOutput(output_ch, ans.out)
              /\ last_exit_code' = ans.code
              /\ LeaveBlock(pc + 1)
              /\ UNCHANGED hist
         ELSE /\ epc' = "returned_err"
              /\ lock' = "free"
              /\ shell' = "idle"
              /\ hist' = [Failed EXCEPT !.endCause = "error", !.endPc = pc,
                                        !.pending = FALSE, !.step = None, !.out = None]
              /\ UNCHANGED <<output_ch, last_exit_code, pc>>
    /\ UNCHANGED <<envVars, variables, call_stack, breakpoints, mode,
                   step_out_target_depth, continue_requested, current_line,
                   data_breakpoints, data_breakpoint_hit, step_depth, wait_count, forIdx,
                   event_ch, shellTick>>

\* a FOR iteration after its shell call (dap_runner.rs:482-511): an error is
\* reported on the output channel and the loop goes on
ReturnFor ==
    /\ epc = "shell" /\ shell = "busy"
    /\ LineAt(pc).op = "for"
    /\ \E ans \in ShellAnswers :
         LET ch == IF ans.ok THEN SendOutput(output_ch, ans.out)
                   ELSE Append(output_ch, OutMsg("error", <<>>, forIdx))
         IN  /\ last_exit_code' = IF ans.ok THEN ans.code ELSE last_exit_code
             /\ hist' = IF ans.ok THEN hist ELSE Failed
             /\ IF forIdx < LineAt(pc).n
                THEN /\ ForIterationPrelude(forIdx + 1, ch)
                     /\ shellTick' = ~ shellTick
                     /\ UNCHANGED <<pc, epc, lock, shell>>
                ELSE /\ output_ch' = ch
                     /\ forIdx' = 0
                     /\ LeaveBlock(pc + 1)
                     /\ UNCHANGED <<variables, call_stack, shellTick>>
    /\ UNCHANGED <<envVars, breakpoints, mode, step_out_target_depth, continue_requested,
                   current_line, data_breakpoints, data_breakpoint_hit, step_depth,
                   wait_count, event_ch>>

\* a plain command after its shell call (dap_runner.rs:631-677)
ReturnPlain ==
    /\ epc = "shell" /\ shell = "busy"
    /\ LineAt(pc).op \in {"cmd", "set"}
    /\ \E ans \in ShellAnswers :
         IF ans.ok
         THEN /\ output_ch' = SendOutput(output_ch, ans.out)
              /\ last_exit_code' = ans.code
              /\ LET hits == DataBreakpointHits(variables, call_stack, data_breakpoints)
                 IN  IF hits # {}
                     THEN /\ \E h \in hits : data_breakpoint_hit' = Some(h)
                          /\ event_ch' = Append(event_ch, <<"stopped", pc>>)
                          /\ data_breakpoints' =
                                UpdateDataBreakpoints(variables, call_stack, data_breakpoints)
                          /\ continue_requested' = FALSE
                          /\ mode' = SetMode("Continue", call_stack,
                                             step_out_target_depth).mode
                          /\ hist' = EventSent(hist, SendOutput(output_ch, ans.out),
                                                 <<"stopped", pc>>)
                     ELSE /\ data_breakpoint_hit' = None
                          /\ UNCHANGED <<event_ch, data_breakpoints, continue_requested,
                                         mode, hist>>
              /\ LeaveBlock(pc + 1)
         ELSE /\ epc' = "term"
              /\ lock' = "free"
              /\ shell' = "idle"
              /\ hist' = [Failed EXCEPT !.endCause = "shell", !.endPc = pc,
                                        !.pending = FALSE, !.step = None, !.out = None]
              /\ UNCHANGED <<output_ch, last_exit_code, data_breakpoint_hit, event_ch,
                             data_breakpoints, continue_requested, mode, pc>>
    /\ UNCHANGED <<envVars, variables, call_stack, breakpoints, step_out_target_depth,
                   current_line, step_depth, wait_count, forIdx, shellTick>>

-----------------------------------------------------------------------------
(* DapServer: the request handlers.  Each locks the context for its whole   *)
(* body (`if let Ok(mut ctx) = ctx_arc.lock()`), so it runs when the lock   *)
(* is free.  The editor follows the protocol: it asks to continue or step   *)
(* after it was told of a stop, and to pause while it believes the script   *)
(* runs.                                                                    *)

\* the engine has sent the stop event of its current stop and not yet resumed
EngineStopped == epc \in {"clear", "wait"}

\* `ctx.set_mode(m)` in a handler, with what the properties observe of it
HandlerSetMode(by, m) ==
    LET r == SetMode(m, call_stack, step_out_target_depth)
    IN  /\ mode' = r.mode
        /\ step_out_target_depth' = r.step_out_target_depth
        /\ hist' = [hist EXCEPT
                      !.pending = IF by # "pause" /\ EngineStopped THEN TRUE ELSE @,
                      !.step = IF by = "next" /\ EngineStopped
                               THEN Some(Len(call_stack)) ELSE None,
                      !.out = IF by = "stepOut" /\ EngineStopped
                              THEN Some(Len(call_stack)) ELSE None,
                      !.overridden = @ \/ (by = "continue" /\ hist.first = <<>>)]

\* faulty variant of Resume: the flag the engine waits for is not raised
ResumeQuietly(by, m) ==
    /\ editor = "stopped"
    /\ lock = "free"
    /\ HandlerSetMode(by, m)
    /\ editor' = "running"
    /\ UNCHANGED <<script, ret, requests, variables, call_stack,
                   last_exit_code, breakpoints, continue_requested, current_line,
                   data_breakpoints, data_breakpoint_hit, lock, shell, engVars,
                   chanVars, shellTick>>

\* the body shared by handle_continue, handle_next, handle_step_in and
\* handle_step_out: set the mode, raise continue_requested
Resume(by, m) ==
    /\ editor = "stopped"
    /\ lock = "free"
    /\ HandlerSetMode(by, m)
    /\ continue_requested' = TRUE
    /\ editor' = "running"
    /\ UNCHANGED <<script, ret, requests, variables, call_stack,
                   last_exit_code, breakpoints, current_line, data_breakpoints,
                   data_breakpoint_hit, lock, shell, engVars, chanVars, shellTick>>

\* DapServer::handle_continue
HandleContinue == Resume("continue", "Continue")

\* DapServer::handle_next
HandleNext == Resume("next", "StepOver")

\* DapServer::handle_step_in
HandleStepIn == Resume("stepIn", "StepInto")

\* DapServer::handle_step_out
HandleStepOut == Resume("stepOut", "StepOut")

\* DapServer::handle_pause: the mode is set and a `stopped` event with reason
\* "pause" goes to the editor
HandlePause ==
    /\ editor = "running"
    /\ lock = "free"
    /\ requests < MaxRequests
    /\ HandlerSetMode("pause", "StepInto")
    /\ editor' = "stopped"
    /\ requests' = requests + 1
    /\ UNCHANGED <<script, ret, variables, call_stack,
                   last_exit_code, breakpoints, continue_requested, current_line,
                   data_breakpoints, data_breakpoint_hit, lock, shell, engVars,
                   chanVars, shellTick>>

\* pre.logical[p].phys_start: the scripts have no continuation lines, so a
\* logical line starts at the physical line of the same index
PhysStart(p) == p

\* faulty variant of CallFrameLine: the line of the statement the frame
\* returns to
ReturnFrameLine(return_pc) == PhysStart(return_pc) + 1

\* the 1-based line reported for a call frame:
\* pre.logical[frame.return_pc.saturating_sub(1)].phys_start + 1
CallFrameLine(return_pc) == PhysStart(SaturatingDec(return_pc)) + 1

\* the loop of handle_stack_trace over ctx.call_stack, from its frame i on: a
\* frame whose line lies past the script is left out
RECURSIVE CallFrames(_, _)
CallFrames(stack, i) ==
    IF i > Len(stack) THEN <<>>
    ELSE IF SaturatingDec(stack[i].return_pc) < NumLines
         THEN << [id |-> i, line |-> CallFrameLine(stack[i].return_pc)] >>
              \o CallFrames(stack, i + 1)
         ELSE CallFrames(stack, i + 1)

\* the stackFrames of the response: frame 0 at the line of current_line, then
\* the call frames
StackFrames(current, stack) ==
    LET current_pc == IF IsSome(current) THEN Unwrap(current) ELSE 0
        physical_line == IF current_pc < NumLines THEN PhysStart(current_pc) + 1 ELSE 1
    IN  << [id |-> 0, line |-> physical_line] >> \o CallFrames(stack, 1)

\* DapServer::handle_stack_trace: the editor asks after it was told of a stop
HandleStackTrace ==
    /\ editor = "stopped"
    /\ lock = "free"
    /\ requests < MaxRequests
    /\ ret' = Some(StackFrames(current_line, call_stack))
    /\ requests' = requests + 1
    /\ UNCHANGED <<script, editor, ctxVars, lock, shell, engVars, chanVars, histVars>>

\* the setBreakpoints requests the editor may send: (1-based physical line,
\* condition) pairs
BpPayloads ==
    { << [line |-> 0, condition |-> None], [line |-> 2, condition |-> None],
         [line |-> 99, condition |-> None] >>,
      << [line |-> 7, condition |-> Some(V)],
         [line |-> 3, condition |-> Some(<<"%", "X", "%">>)] >> }

\* the loop of handle_set_breakpoints over the requested breakpoints
\* (server.rs:497-531, 539-552)
RECURSIVE AddRequested(_, _)
AddRequested(bps, payload) ==
    IF payload = <<>> THEN bps
    ELSE LET bp == Head(payload)
             phys_line == SaturatingDec(bp.line)
         IN  IF phys_line < NumLines
             THEN AddRequested(Insert(bps, PhysToLogical[phys_line],
                                      NewBreakpoint(PhysToLogical[phys_line], bp.condition)),
                               Tail(payload))
             ELSE AddRequested(bps, Tail(payload))

\* DapServer::handle_set_breakpoints
HandleSetBreakpoints ==
    /\ editor = "stopped"
    /\ lock = "free"
    /\ requests < MaxRequests
    /\ \E payload \in BpPayloads : breakpoints' = AddRequested(breakpoints, payload)
    /\ requests' = requests + 1
    /\ UNCHANGED <<script, ret, editor, variables, call_stack, last_exit_code,
                   mode, step_out_target_depth, continue_requested, current_line,
                   data_breakpoints, data_breakpoint_hit, lock, shell, engVars, chanVars,
                   histVars>>

\* DapServer::handle_set_data_breakpoints: the old set is removed, the
\* requested names are added with their current visible values
HandleSetDataBreakpoints ==
    /\ editor = "stopped"
    /\ lock = "free"
    /\ requests < MaxRequests
    /\ \E names \in {{}, {V}} :
         data_breakpoints' =
            [n \in names |-> AddDataBreakpoint(variables, call_stack, EmptyMap, n)[n]]
    /\ requests' = requests + 1
    /\ UNCHANGED <<script, ret, editor, variables, call_stack, last_exit_code,
                   breakpoints, mode, step_out_target_depth, continue_requested,
                   current_line, data_breakpoint_hit, lock, shell, engVars, chanVars,
                   histVars>>

\* faulty variant of DrainOutput: one message is taken (`if let` for `while let`)
DrainFirst(ch) == IF ch = <<>> THEN ch ELSE Tail(ch)

\* `while let Ok(output) = output_rx.try_recv()`: what is left on the channel
\* after every message it holds was taken and forwarded (server.rs:410-418,
\* 1073-1080)
DrainOutput(ch) == <<>>

\* the editor is told of the event taken off the event channel
\* (server.rs:428-441)
Forwarded(event) == IF event[1] = "terminated" THEN "terminated" ELSE "stopped"

\* handle_launch after the spawn: whatever output is already there is
\* forwarded (server.rs:410-418), then the session blocks in recv_timeout
LaunchDrain ==
    /\ editor = "launching"
    /\ output_ch' = DrainOutput(output_ch)
    /\ hist' = OutputTaken(hist, Len(output_ch) - Len(output_ch'))
    /\ editor' = "awaiting"
    /\ UNCHANGED <<script, ret, requests, ctxVars, lock, shell, engVars, event_ch,
                   shellTick>>

\* handle_launch: rx.recv_timeout returns the first event, which is forwarded
\* (server.rs:419-441)
LaunchReceive ==
    /\ editor = "awaiting"
    /\ event_ch # <<>>
    /\ event_ch' = Tail(event_ch)
    /\ hist' = [hist EXCEPT !.marks = Tail(@), !.prior = Head(hist.marks)]
    /\ editor' = Forwarded(Head(event_ch))
    /\ UNCHANGED <<script, ret, requests, ctxVars, lock, shell, engVars, output_ch,
                   shellTick>>

\* handle_launch: the 2 s of recv_timeout pass without an event
\* (server.rs:442-450); the session goes back to serving requests
LaunchTimeout ==
    /\ editor = "awaiting"
    /\ editor' = "running"
    /\ UNCHANGED <<script, ret, requests, ctxVars, lock, shell, engVars, chanVars,
                   histVars>>

\* the session's dispatch loop after launch: it drains the output channel,
\* then forwards the next event of the event channel to the editor as
\* `stopped` or `terminated`
ReceiveEvent ==
    /\ editor \notin {"launching", "awaiting"}
    /\ event_ch # <<>>
    /\ output_ch' = DrainOutput(output_ch)
    /\ event_ch' = Tail(event_ch)
    /\ hist' = [OutputTaken(hist, Len(output_ch) - Len(output_ch')) EXCEPT
                  !.marks = Tail(@), !.prior = Head(hist.marks)]
    /\ editor' = Forwarded(Head(event_ch))
    /\ UNCHANGED <<script, ret, requests, ctxVars, lock, shell, engVars, shellTick>>

\* DapServer::check_and_send_output: the output channel is drained
CheckAndSendOutput ==
    /\ editor \notin {"launching", "awaiting"}
    /\ output_ch # <<>>
    /\ output_ch' = DrainOutput(output_ch)
    /\ hist' = OutputTaken(hist, Len(output_ch) - Len(output_ch'))
    /\ UNCHANGED <<envVars, ctxVars, lock, shell, engVars, event_ch, shellTick>>

-----------------------------------------------------------------------------

Next ==
    \/ EofUnwind /\ Quiet
    \/ SkipLine /\ Quiet
    \/ DecideStop /\ Quiet
    \/ SendStopped /\ Quiet
    \/ ClearContinue /\ Quiet
    \/ WaitPoll /\ Quiet
    \/ ExecScope /\ Quiet
    \/ ExecCall /\ Quiet
    \/ ExecExitB /\ Quiet
    \/ ExecGoto /\ Quiet
    \/ ExecFor /\ Quiet
    \/ ExecPlain /\ Quiet
    \/ ReturnScope /\ Quiet
    \/ ReturnFor /\ Quiet
    \/ ReturnPlain /\ Quiet
    \/ SendTerminated /\ Quiet
    \/ HandleContinue /\ Quiet
    \/ HandleNext /\ Quiet
    \/ HandleStepIn /\ Quiet
    \/ HandleStepOut /\ Quiet
    \/ HandlePause /\ Quiet
    \/ HandleSetBreakpoints /\ Quiet
    \/ HandleSetDataBreakpoints /\ Quiet
    \/ HandleStackTrace /\ Quiet
    \/ LaunchDrain /\ Quiet
    \/ LaunchReceive /\ Quiet
    \/ LaunchTimeout /\ Quiet
    \/ ReceiveEvent /\ Quiet
    \/ CheckAndSendOutput /\ Quiet

Spec == Init /\ [][Next]_vars

\* the run loop with an editor that only resumes it: the engine's steps, the
\* launch, the forwarding of events and output, and the four resume requests
NextLive ==
    \/ EofUnwind /\ Quiet
    \/ SkipLine /\ Quiet
    \/ DecideStop /\ Quiet
    \/ SendStopped /\ Quiet
    \/ ClearContinue /\ Quiet
    \/ WaitPoll /\ Quiet
    \/ ExecScope /\ Quiet
    \/ ExecCall /\ Quiet
    \/ ExecExitB /\ Quiet
    \/ ExecGoto /\ Quiet
    \/ ExecFor /\ Quiet
    \/ ExecPlain /\ Quiet
    \/ ReturnScope /\ Quiet
    \/ ReturnFor /\ Quiet
    \/ ReturnPlain /\ Quiet
    \/ SendTerminated /\ Quiet
    \/ HandleContinue /\ Quiet
    \/ HandleNext /\ Quiet
    \/ HandleStepIn /\ Quiet
    \/ HandleStepOut /\ Quiet
    \/ LaunchDrain /\ Quiet
    \/ LaunchReceive /\ Quiet
    \/ LaunchTimeout /\ Quiet
    \/ ReceiveEvent /\ Quiet
    \/ CheckAndSendOutput /\ Quiet

\* the engine is a thread of its own: a pass of its wait loop that is due is
\* made, and the statement after the run loop is reached
SpecLive ==
    /\ Init
    /\ [][NextLive]_vars
    /\ WF_vars(WaitPoll /\ Quiet)
    /\ WF_vars(SendTerminated /\ Quiet)

-----------------------------------------------------------------------------
(* The context operations called directly, as tests/integration_tests.rs    *)
(* calls them on a DebugContext of its own: no execution thread, no         *)
(* session.  The engine is parked at "api", where none of its actions is    *)
(* enabled.                                                                 *)

\* values a caller stores in V through track_set_command
ApiValues == { <<"0">>, <<"5">>, FalseWord, <<"F","A","L","S","E">> }

\* values a caller stores in V through set_loop_variable, which keeps blanks
ApiLoopValues == { <<" ", "0", " ">>, <<"1">> }

\* the lines should_stop_at is asked about, and those breakpoints are added on
ApiLines == {0, 1}
ApiBreakpointLines == {0}

\* breakpoint conditions: none, a variable name, something only the shell
\* can evaluate
ApiConditions == { None, Some(V), Some(<<"%", "X", "%">>) }

apiQuiet == <<script, editor, requests, continue_requested,
              current_line, data_breakpoints, data_breakpoint_hit, lock, shell,
              engVars, chanVars, shellTick>>
apiFrame == <<apiQuiet, hist>>

InitCtx ==
    /\ script = 1
    /\ ret = None
    /\ editor = "running"
    /\ requests = 0
    /\ variables = EmptyMap
    /\ call_stack = <<>>
    /\ last_exit_code = 0
    /\ breakpoints = EmptyMap
    /\ mode = "Continue"
    /\ step_out_target_depth = 0
    /\ continue_requested = FALSE
    /\ current_line = None
    /\ data_breakpoints = EmptyMap
    /\ data_breakpoint_hit = None
    /\ lock = "free"
    /\ shell = "idle"
    /\ epc = "api"
    /\ pc = 0
    /\ step_depth = None
    /\ wait_count = 0
    /\ forIdx = 0
    /\ event_ch = <<>>
    /\ output_ch = <<>>
    /\ shellTick = FALSE
    /\ hist = HistInit
    /\ FreshSession

\* ctx.track_set_command("set V=<val>")
ApiTrackSet(val) ==
    /\ epc = "api"
    /\ LET t == TrackSetCommand(variables, call_stack, Set(V, val))
       IN  /\ variables' = t.variables
           /\ call_stack' = t.call_stack
    /\ ret' = None
    /\ UNCHANGED <<last_exit_code, breakpoints, mode, step_out_target_depth, apiFrame>>

\* ctx.set_loop_variable("V", <val>): the value is stored as given
ApiSetLoopVariable(val) ==
    /\ epc = "api"
    /\ LET t == SetLoopVariable(variables, call_stack, V, val)
       IN  /\ variables' = t.variables
           /\ call_stack' = t.call_stack
    /\ ret' = None
    /\ UNCHANGED <<last_exit_code, breakpoints, mode, step_out_target_depth, apiFrame>>

\* ctx.add_breakpoint(line) / ctx.add_breakpoint_with_condition(line, cond)
ApiAddBreakpoint(line, cond) ==
    /\ epc = "api"
    /\ breakpoints' = Insert(breakpoints, line, NewBreakpoint(line, cond))
    /\ ret' = None
    /\ UNCHANGED <<variables, call_stack, last_exit_code, mode, step_out_target_depth,
                   apiFrame>>

\* ctx.set_mode(m)
ApiSetMode(m) ==
    /\ epc = "api"
    /\ LET r == SetMode(m, call_stack, step_out_target_depth)
       IN  /\ mode' = r.mode
           /\ step_out_target_depth' = r.step_out_target_depth
    /\ ret' = None
    /\ hist' = [hist EXCEPT !.out = IF m = "StepOut" THEN Some(Len(call_stack)) ELSE None]
    /\ UNCHANGED <<variables, call_stack, last_exit_code, breakpoints, apiQuiet>>

\* ctx.handle_step_command(step_type)
ApiHandleStepCommand(step_type) ==
    /\ epc = "api"
    /\ LET r == HandleStepCommand(step_type, mode, call_stack, step_out_target_depth)
       IN  /\ mode' = r.mode
           /\ step_out_target_depth' = r.step_out_target_depth
           /\ hist' = [hist EXCEPT !.out = IF r.mode = "StepOut"
                                           THEN IF step_type = "stepOut"
                                                THEN Some(Len(call_stack)) ELSE @
                                           ELSE None]
    /\ ret' = None
    /\ UNCHANGED <<variables, call_stack, last_exit_code, breakpoints, apiQuiet>>

\* ctx.call_stack.push(Frame::new(return_pc, None))
PushFrame(limit) ==
    /\ epc = "api"
    /\ Len(call_stack) < limit
    /\ call_stack' = Append(call_stack, NewFrame(Len(call_stack) + 1, None))
    /\ ret' = None
    /\ UNCHANGED <<variables, last_exit_code, breakpoints, mode, step_out_target_depth,
                   apiFrame>>

ApiPushFrame == PushFrame(MaxApiDepth)

\* ctx.handle_setlocal() / ctx.handle_endlocal()
ApiScope(open) ==
    /\ epc = "api"
    /\ call_stack' = IF open THEN HandleSetlocal(call_stack) ELSE HandleEndlocal(call_stack)
    /\ ret' = None
    /\ UNCHANGED <<variables, last_exit_code, breakpoints, mode, step_out_target_depth,
                   apiFrame>>

\* leave_context(&mut ctx.call_stack)
ApiLeaveContext ==
    /\ epc = "api"
    /\ LET r == LeaveContext(call_stack)
       IN  /\ call_stack' = r.call_stack
           /\ ret' = Some([op |-> "leave_context", line |-> 0, stop |-> IsSome(r.next_pc)])
    /\ UNCHANGED <<variables, last_exit_code, breakpoints, mode, step_out_target_depth,
                   apiFrame>>

\* ctx.should_stop_at(p); the shell answers `ans` if the condition reaches it
ApiShouldStopAt(p, ans) ==
    /\ epc = "api"
    /\ p \in DOMAIN breakpoints => breakpoints[p].hit_count < MaxHitCount
    /\ LET r == ShouldStopAt(variables, call_stack, last_exit_code, breakpoints, mode,
                             step_out_target_depth, p, ans)
       IN  /\ breakpoints' = r.breakpoints
           /\ last_exit_code' = r.last_exit_code
           /\ ret' = Some([op |-> "should_stop_at", line |-> p, stop |-> r.stop])
           /\ hist' = [hist EXCEPT !.out = IF r.stop THEN None ELSE @]
    /\ UNCHANGED <<variables, call_stack, mode, step_out_target_depth, apiQuiet>>

NextCtx ==
    \/ \E val \in ApiValues : ApiTrackSet(val) /\ Quiet
    \/ \E val \in ApiLoopValues : ApiSetLoopVariable(val) /\ Quiet
    \/ \E line \in ApiBreakpointLines, cond \in ApiConditions :
           ApiAddBreakpoint(line, cond) /\ Quiet
    \/ \E m \in RunModes : ApiSetMode(m) /\ Quiet
    \/ \E step_type \in {"continue", "next", "stepIn", "stepOut", "run"} :
           ApiHandleStepCommand(step_type) /\ Quiet
    \/ ApiPushFrame /\ Quiet
    \/ \E open \in BOOLEAN : ApiScope(open) /\ Quiet
    \/ ApiLeaveContext /\ Quiet
    \/ \E p \in ApiLines, ans \in ShellAnswers : ApiShouldStopAt(p, ans) /\ Quiet

SpecCtx == InitCtx /\ [][NextCtx]_vars

\* deepest call stack built when the stepping operations are called
MaxStepDepth == 2

\* the operations that move the call stack, the mode and the stepOut target,
\* on deeper stacks and without breakpoints
NextStep ==
    \/ \E m \in RunModes : ApiSetMode(m) /\ Quiet
    \/ \E step_type \in {"continue", "next", "stepIn", "stepOut", "run"} :
           ApiHandleStepCommand(step_type) /\ Quiet
    \/ PushFrame(MaxStepDepth) /\ Quiet
    \/ ApiLeaveContext /\ Quiet
    \/ \E p \in ApiLines, ans \in ShellAnswers : ApiShouldStopAt(p, ans) /\ Quiet

SpecStep == InitCtx /\ [][NextStep]_vars

-----------------------------------------------------------------------------
(* Variable scopes: the writers and the scope operations called directly,   *)
(* in any order, on a context with up to MaxScopeDepth frames.              *)

W == <<"W">>

ScopeNames == {V, W}
ScopeValues == { <<"1">>, <<"2">> }

scopeFrame == <<script, editor, requests, breakpoints, mode, step_out_target_depth,
                continue_requested, current_line, data_breakpoints, data_breakpoint_hit,
                lock, shell, engVars, chanVars, shellTick>>

\* faulty variant of SetVariable: the value is stored whatever the shell answers
SetVariableUnchecked(vars_, stack, exit_code, name, value, ans) ==
    LET w == StoreVar(vars_, stack, name, value)
    IN  [ok |-> ans.ok, variables |-> w.variables, call_stack |-> w.call_stack,
         last_exit_code |-> IF ans.ok THEN ans.code ELSE exit_code]

\* DebugContext::set_variable: `SET name=value` is run in the shell; on Ok the
\* exit code is kept and the value stored as given, on Err nothing changes
SetVariable(vars_, stack, exit_code, name, value, ans) ==
    IF ans.ok
    THEN LET w == StoreVar(vars_, stack, name, value)
         IN  [ok |-> TRUE, variables |-> w.variables, call_stack |-> w.call_stack,
              last_exit_code |-> ans.code]
    ELSE [ok |-> FALSE, variables |-> vars_, call_stack |-> stack,
          last_exit_code |-> exit_code]

\* DebugContext::expand_variables: `echo <text>` is run and its exit code
\* dropped
ExpandVariables(ans) ==
    IF ans.ok THEN [ok |-> TRUE, value |-> Trim(ans.out)] ELSE [ok |-> FALSE, value |-> <<>>]

\* DebugContext::evaluate_if_condition on IfCondition::Exist: the path is
\* expanded, then the shell is asked `if exist "<path>" (echo 1) else (echo 0)`.
\* Returns the io::Result<bool>, the context's exit code after the call and
\* the exit codes the shell returned, in order.
EvaluateIfExist(exit_code, negated, ans_expand, ans_check) ==
    LET path_expanded == ExpandVariables(ans_expand)
    IN  IF ~ path_expanded.ok
        THEN [ok |-> FALSE, result |-> FALSE, last_exit_code |-> exit_code, codes |-> <<>>]
        ELSE IF ~ ans_check.ok
        THEN [ok |-> FALSE, result |-> FALSE, last_exit_code |-> exit_code,
              codes |-> <<ans_expand.code>>]
        ELSE [ok |-> TRUE, result |-> (Trim(ans_check.out) = <<"1">>) # negated,
              last_exit_code |-> exit_code, codes |-> <<ans_expand.code, ans_check.code>>]

\* ctx.track_set_command("SET <name>=<val>")
ScopeTrackSet(name, val) ==
    /\ epc = "api"
    /\ LET t == TrackSetCommand(variables, call_stack, Set(name, val))
       IN  /\ variables' = t.variables
           /\ call_stack' = t.call_stack
    /\ UNCHANGED <<ret, last_exit_code, hist, scopeFrame>>

\* ctx.set_loop_variable(<name>, <val>)
ScopeSetLoopVariable(name, val) ==
    /\ epc = "api"
    /\ LET t == SetLoopVariable(variables, call_stack, name, val)
       IN  /\ variables' = t.variables
           /\ call_stack' = t.call_stack
    /\ UNCHANGED <<ret, last_exit_code, hist, scopeFrame>>

\* ctx.set_variable(<name>, <val>)
ScopeSetVariable(name, val, ans) ==
    /\ epc = "api"
    /\ LET t == SetVariable(variables, call_stack, last_exit_code, name, val, ans)
       IN  /\ variables' = t.variables
           /\ call_stack' = t.call_stack
           /\ last_exit_code' = t.last_exit_code
           /\ hist' = IF ans.ok THEN [hist EXCEPT !.shellCode = Some(ans.code)] ELSE hist
    /\ UNCHANGED <<ret, scopeFrame>>

\* ctx.evaluate_if_condition(&IfCondition::Exist { .. })
ScopeEvaluateIf(negated, ans_expand, ans_check) ==
    /\ epc = "api"
    /\ LET r == EvaluateIfExist(last_exit_code, negated, ans_expand, ans_check)
       IN  /\ last_exit_code' = r.last_exit_code
           /\ hist' = IF r.codes # <<>> THEN [hist EXCEPT !.shellCode = Some(Last(r.codes))]
                      ELSE hist
    /\ UNCHANGED <<ret, variables, call_stack, scopeFrame>>

\* ctx.call_stack.push(Frame::new(..)): what CALL does to the context
ScopePushFrame ==
    /\ epc = "api"
    /\ Len(call_stack) < MaxScopeDepth
    /\ call_stack' = Append(call_stack, NewFrame(Len(call_stack) + 1, None))
    /\ UNCHANGED <<ret, variables, last_exit_code, hist, scopeFrame>>

\* leave_context(&mut ctx.call_stack): what EXIT /B does to the context
ScopeLeaveContext ==
    /\ epc = "api"
    /\ call_stack' = LeaveContext(call_stack).call_stack
    /\ UNCHANGED <<ret, variables, last_exit_code, hist, scopeFrame>>

\* ctx.handle_setlocal()
ScopeSetlocal ==
    /\ epc = "api"
    /\ call_stack' = HandleSetlocal(call_stack)
    /\ UNCHANGED <<ret, variables, last_exit_code, hist, scopeFrame>>

\* ctx.handle_endlocal()
ScopeEndlocal ==
    /\ epc = "api"
    /\ call_stack' = HandleEndlocal(call_stack)
    /\ UNCHANGED <<ret, variables, last_exit_code, hist, scopeFrame>>

NextScope ==
    \/ \E name \in ScopeNames, val \in ScopeValues : ScopeTrackSet(name, val) /\ Quiet
    \/ \E name \in ScopeNames, val \in ScopeValues : ScopeSetLoopVariable(name, val) /\ Quiet
    \/ \E name \in ScopeNames, val \in ScopeValues, ans \in ShellAnswers :
           ScopeSetVariable(name, val, ans) /\ Quiet
    \/ \E negated \in BOOLEAN, ans_expand \in ShellAnswers, ans_check \in ShellAnswers :
           ScopeEvaluateIf(negated, ans_expand, ans_check) /\ Quiet
    \/ ScopePushFrame /\ Quiet
    \/ ScopeLeaveContext /\ Quiet
    \/ ScopeSetlocal /\ Quiet
    \/ ScopeEndlocal /\ Quiet

SpecScope == InitCtx /\ [][NextScope]_vars

-----------------------------------------------------------------------------
(* Data breakpoints: add, remove, check and update called directly, between *)
(* commands that write variables, open and close scopes, and push and pop   *)
(* frames.                                                                  *)

\* visible.get(name).cloned().unwrap_or_default()
VisibleValue(vars_, stack, name) ==
    LET visible == GetVisibleVariables(vars_, stack)
    IN  IF name \in DOMAIN visible THEN visible[name] ELSE <<>>

\* DebugContext::remove_data_breakpoint
RemoveDataBreakpoint(dbps, name) == [n \in DOMAIN dbps \ {name} |-> dbps[n]]

\* the commands between the calls: SET V=1, SET V=2, SET W=1, SETLOCAL,
\* ENDLOCAL, CALL, EXIT /B
DataCommands ==
    {[op |-> "set", name |-> V, val |-> v] : v \in ScopeValues}
       \cup {[op |-> "set", name |-> W, val |-> <<"1">>]}
       \cup {[op |-> o, name |-> <<>>, val |-> <<>>] :
                 o \in {"setlocal", "endlocal", "call", "exit"}}

\* one command of a script, as far as the context's variables and frames go
DataCommand(cmd) ==
    /\ epc = "api"
    /\ cmd.op = "call" => Len(call_stack) < MaxApiDepth
    /\ LET t == CASE cmd.op = "set" ->
                        TrackSetCommand(variables, call_stack, Set(cmd.name, cmd.val))
                   [] cmd.op = "setlocal" ->
                        [variables |-> variables, call_stack |-> HandleSetlocal(call_stack)]
                   [] cmd.op = "endlocal" ->
                        [variables |-> variables, call_stack |-> HandleEndlocal(call_stack)]
                   [] cmd.op = "call" ->
                        [variables |-> variables,
                         call_stack |-> Append(call_stack,
                                               NewFrame(Len(call_stack) + 1, None))]
                   [] cmd.op = "exit" ->
                        [variables |-> variables,
                         call_stack |-> LeaveContext(call_stack).call_stack]
           changed == {n \in DOMAIN data_breakpoints :
                          VisibleValue(t.variables, t.call_stack, n)
                             # VisibleValue(variables, call_stack, n)}
       IN  /\ variables' = t.variables
           /\ call_stack' = t.call_stack
           /\ hist' = [hist EXCEPT !.moved = @ \cup changed,
                                    !.fired = IF changed # {} THEN FALSE ELSE @]
    /\ ret' = None
    /\ UNCHANGED <<last_exit_code, scopeFrame>>

\* ctx.add_data_breakpoint(name)
DataAdd(name) ==
    /\ epc = "api"
    /\ data_breakpoints' = AddDataBreakpoint(variables, call_stack, data_breakpoints, name)
    /\ hist' = [hist EXCEPT
                  !.base = Insert(@, name, VisibleValue(variables, call_stack, name)),
                  !.moved = @ \ {name}]
    /\ ret' = None
    /\ UNCHANGED <<script, editor, requests, variables, call_stack, last_exit_code,
                   breakpoints, mode, step_out_target_depth, continue_requested,
                   current_line, data_breakpoint_hit, lock, shell, engVars, chanVars,
                   shellTick>>

\* ctx.remove_data_breakpoint(name)
DataRemove(name) ==
    /\ epc = "api"
    /\ data_breakpoints' = RemoveDataBreakpoint(data_breakpoints, name)
    /\ hist' = [hist EXCEPT !.base = [n \in DOMAIN @ \ {name} |-> @[n]],
                             !.moved = @ \ {name}]
    /\ ret' = None
    /\ UNCHANGED <<script, editor, requests, variables, call_stack, last_exit_code,
                   breakpoints, mode, step_out_target_depth, continue_requested,
                   current_line, data_breakpoint_hit, lock, shell, engVars, chanVars,
                   shellTick>>

\* ctx.check_data_breakpoints(): the answer, with the hit it records
DataCheck ==
    /\ epc = "api"
    /\ LET hits == DataBreakpointHits(variables, call_stack, data_breakpoints)
       IN  /\ IF hits = {} THEN data_breakpoint_hit' = None
                           ELSE \E h \in hits : data_breakpoint_hit' = Some(h)
           /\ ret' = Some([op |-> "check_data_breakpoints", line |-> 0,
                           stop |-> hits # {}])
           /\ hist' = [hist EXCEPT !.fired = @ \/ hits # {}]
    /\ UNCHANGED <<script, editor, requests, variables, call_stack, last_exit_code,
                   breakpoints, mode, step_out_target_depth, continue_requested,
                   current_line, data_breakpoints, lock, shell, engVars, chanVars,
                   shellTick>>

\* ctx.update_data_breakpoints()
DataUpdate ==
    /\ epc = "api"
    /\ data_breakpoints' = UpdateDataBreakpoints(variables, call_stack, data_breakpoints)
    /\ hist' = [hist EXCEPT
                  !.base = [n \in DOMAIN @ |-> VisibleValue(variables, call_stack, n)],
                  !.moved = {}, !.fired = FALSE]
    /\ ret' = None
    /\ UNCHANGED <<script, editor, requests, variables, call_stack, last_exit_code,
                   breakpoints, mode, step_out_target_depth, continue_requested,
                   current_line, data_breakpoint_hit, lock, shell, engVars, chanVars,
                   shellTick>>

NextData ==
    \/ \E cmd \in DataCommands : DataCommand(cmd) /\ Quiet
    \/ \E name \in ScopeNames : DataAdd(name) /\ Quiet
    \/ \E name \in ScopeNames : DataRemove(name) /\ Quiet
    \/ DataCheck /\ Quiet
    \/ DataUpdate /\ Quiet

SpecData == InitCtx /\ [][NextData]_vars

-----------------------------------------------------------------------------
(* The session followed through its output stream: the engine has stopped   *)
(* and waits, and the editor's requests are handled one after another.      *)
(* Every response and event takes its seq from next_seq.                     *)

\* faulty variant of NextSeq: the counter is returned without being advanced
NextSeqStuck(s) == s

\* DapServer::next_seq: `self.seq += 1; self.seq`
NextSeq(s) == s + 1

\* the counter after k calls of next_seq
RECURSIVE SeqAfter(_, _)
SeqAfter(s, k) == IF k = 0 THEN s ELSE NextSeq(SeqAfter(s, k - 1))

\* send_response / send_event called k times in a row: each message is
\* written with the seq next_seq gives it
Sends(k) ==
    /\ Len(sent) + k <= MaxMessages
    /\ seq' = SeqAfter(seq, k)
    /\ sent' = sent \o [i \in 1 .. k |-> SeqAfter(seq, i)]

\* send_response(seq, command, success, body), possibly followed by events
Respond(k, success, kind, body) ==
    /\ Sends(k)
    /\ response' = Some([success |-> success, kind |-> kind, body |-> body])

\* the `breakpoints` array of the setBreakpoints response: one entry per
\* requested breakpoint whose 0-based line lies within phys_to_logical
RECURSIVE VerifiedBreakpoints(_)
VerifiedBreakpoints(payload) ==
    IF payload = <<>> THEN <<>>
    ELSE LET bp == Head(payload)
         IN  (IF SaturatingDec(bp.line) < NumLines
              THEN << [verified |-> TRUE, line |-> bp.line] >>
              ELSE <<>>) \o VerifiedBreakpoints(Tail(payload))

\* handle_set_breakpoints with its response
SessSetBreakpoints ==
    /\ HandleSetBreakpoints
    /\ \E payload \in BpPayloads :
         /\ breakpoints' = AddRequested(breakpoints, payload)
         /\ Respond(1, TRUE, "breakpoints", VerifiedBreakpoints(payload))
    /\ UNCHANGED <<watch_expressions, dirVars, cmdVars>>

\* handle_continue with its response
SessContinue ==
    /\ HandleContinue
    /\ Respond(1, TRUE, "continue", <<>>)
    /\ UNCHANGED <<watch_expressions, dirVars, cmdVars>>

\* handle_pause with its response and the `stopped` event after it
SessPause ==
    /\ HandlePause
    /\ Respond(2, TRUE, "pause", <<>>)
    /\ UNCHANGED <<watch_expressions, dirVars, cmdVars>>

\* the names and values a setVariable request may carry
SetVariableNames ==
    {V, ErrorLevelName, <<"e","r","r","o","r","L","e","v","e","l">>, <<>>}
SetVariableValues == {<<"1">>, <<"2">>}

\* handle_set_variable: ERRORLEVEL and the empty name are refused before the
\* context is touched; otherwise set_variable decides the response
HandleSetVariable(var_name, var_value, ans) ==
    /\ lock = "free"
    /\ IF EqIgnoreAsciiCase(var_name, ErrorLevelName)
       THEN /\ Respond(1, FALSE, "error", <<>>)
            /\ UNCHANGED <<variables, call_stack, last_exit_code, shellTick>>
       ELSE IF var_name = <<>>
       THEN /\ Respond(1, FALSE, "none", <<>>)
            /\ UNCHANGED <<variables, call_stack, last_exit_code, shellTick>>
       ELSE LET result == SetVariable(variables, call_stack, last_exit_code,
                                      var_name, var_value, ans)
            IN  /\ variables' = result.variables
                /\ call_stack' = result.call_stack
                /\ last_exit_code' = result.last_exit_code
                /\ shellTick' = ~ shellTick
                /\ Respond(1, result.ok, IF result.ok THEN "value" ELSE "none",
                           IF result.ok THEN var_value ELSE <<>>)
    /\ UNCHANGED <<script, ret, editor, requests, breakpoints, mode,
                   step_out_target_depth, continue_requested, current_line,
                   data_breakpoints, data_breakpoint_hit, lock, shell, engVars,
                   chanVars, hist, watch_expressions, dirVars, cmdVars>>

\* faulty variant of AddWatch: the expression is pushed without the
\* `contains` test
AddWatchAlways(watches, expression) == Append(watches, expression)

\* DapServer::add_watch, and the same test and push in handle_evaluate
AddWatch(watches, expression) ==
    IF \E i \in DOMAIN watches : watches[i] = expression
    THEN watches
    ELSE Append(watches, expression)

\* DapServer::remove_watch: retain(|e| e != expression)
RemoveWatch(watches, expression) ==
    SelectSeq(watches, LAMBDA e : e # expression)

\* the expressions and contexts an evaluate request may carry
WatchExpressions == {<<>>, V, <<"%", "X", "%">>}
EvaluateContexts == {"watch", "hover"}

\* handle_evaluate: an empty expression is refused first; a watch context
\* adds the expression to the watch list; then the context evaluates it
HandleEvaluate(expression, context, ans) ==
    /\ lock = "free"
    /\ IF expression = <<>>
       THEN /\ Respond(1, FALSE, "none", <<>>)
            /\ UNCHANGED <<watch_expressions, last_exit_code, shellTick>>
       ELSE LET result == EvaluateExpression(variables, call_stack, last_exit_code,
                                             expression, ans)
            IN  /\ watch_expressions' =
                      IF context = "watch"
                      THEN AddWatch(watch_expressions, expression)
                      ELSE watch_expressions
                /\ last_exit_code' = result.exit
                /\ shellTick' = IF result.ran THEN ~ shellTick ELSE shellTick
                /\ Respond(1, result.ok, IF result.ok THEN "result" ELSE "error",
                           result.value)
    /\ UNCHANGED <<script, ret, editor, requests, variables, call_stack, breakpoints,
                   mode, step_out_target_depth, continue_requested, current_line,
                   data_breakpoints, data_breakpoint_hit, lock, shell, engVars,
                   chanVars, hist, dirVars, cmdVars>>

\* add_watch called on the session
DoAddWatch(expression) ==
    /\ watch_expressions' = AddWatch(watch_expressions, expression)
    /\ UNCHANGED <<envVars, ctxVars, lock, shell, engVars, chanVars, histVars,
                   seq, sent, response, dirVars, cmdVars>>

\* remove_watch called on the session
DoRemoveWatch(expression) ==
    /\ \E i \in DOMAIN watch_expressions : watch_expressions[i] = expression
    /\ watch_expressions' = RemoveWatch(watch_expressions, expression)
    /\ UNCHANGED <<envVars, ctxVars, lock, shell, engVars, chanVars, histVars,
                   seq, sent, response, dirVars, cmdVars>>

\* the engine has stopped and waits in its poll loop, at top level or inside
\* a subroutine with or without an open scope
InitSession ==
    /\ script = 1
    /\ ret = None
    /\ editor = "stopped"
    /\ requests = 0
    /\ variables = EmptyMap
    /\ call_stack \in { <<>>, << NewFrame(1, Some(<<>>)) >>,
                        HandleSetlocal(<< NewFrame(1, Some(<<>>)) >>) }
    /\ last_exit_code = 0
    /\ breakpoints = EmptyMap
    /\ mode = "StepInto"
    /\ step_out_target_depth = 0
    /\ continue_requested = FALSE
    /\ current_line = Some(0)
    /\ data_breakpoints = EmptyMap
    /\ data_breakpoint_hit = None
    /\ lock = "free"
    /\ shell = "idle"
    /\ epc = "wait"
    /\ pc = 0
    /\ step_depth = None
    /\ wait_count = 0
    /\ forIdx = 0
    /\ event_ch = <<>>
    /\ output_ch = <<>>
    /\ shellTick = FALSE
    /\ hist = HistInit
    /\ FreshSession

NextSession ==
    \/ SessSetBreakpoints
    \/ SessContinue
    \/ SessPause
    \/ \E name \in SetVariableNames, value \in SetVariableValues, ans \in ShellAnswers :
         HandleSetVariable(name, value, ans)

SpecSession == InitSession /\ [][NextSession]_vars

\* the watch list: evaluate requests and the session's own add_watch and
\* remove_watch, in any order
NextWatch ==
    \/ \E expression \in WatchExpressions, context \in EvaluateContexts,
          ans \in ShellAnswers : HandleEvaluate(expression, context, ans)
    \/ \E expression \in WatchExpressions : DoAddWatch(expression)
    \/ \E expression \in WatchExpressions : DoRemoveWatch(expression)

SpecWatch == InitSession /\ [][NextWatch]_vars

-----------------------------------------------------------------------------
(* Operations of the context called directly, as the integration tests do:  *)
(* the directory stack, SHIFT, the expansion of a numeric FOR and the        *)
(* evaluation of an expression.  `ret` holds what the last call returned.    *)

\* the directories that exist; a path is the tuple of its names from the root
Dirs == { <<"r">>, <<"r", "t">>, <<"r", "t", "t">> }

\* the relative paths PUSHD is given: one that may exist, one that never does
PushdTargets == { <<"t">>, <<"x">> }

\* deepest directory stack built
MaxDirStack == 2

\* env::set_current_dir on a relative path: resolved against the current
\* directory; it fails when the directory does not exist
Resolve(dir, path) == dir \o path

\* DebugContext::handle_pushd: the current directory is pushed first; then,
\* if a path is given, the process changes directory and the shell is told
\* `cd /d path`; each of the two may fail and ends the call with Err
HandlePushd(path, ans) ==
    /\ Len(directory_stack) < MaxDirStack
    /\ directory_stack' = Append(directory_stack, cwd)
    /\ IF ~ IsSome(path)
       THEN /\ ret' = Some([op |-> "pushd", ok |-> TRUE])
            /\ UNCHANGED <<cwd, last_exit_code, shellTick>>
       ELSE IF Resolve(cwd, Unwrap(path)) \notin Dirs
       THEN /\ ret' = Some([op |-> "pushd", ok |-> FALSE])
            /\ UNCHANGED <<cwd, last_exit_code, shellTick>>
       ELSE /\ cwd' = Resolve(cwd, Unwrap(path))
            /\ shellTick' = ~ shellTick
            /\ last_exit_code' = IF ans.ok THEN ans.code ELSE last_exit_code
            /\ ret' = Some([op |-> "pushd", ok |-> ans.ok])
    /\ UNCHANGED <<script, editor, requests, variables, call_stack, breakpoints, mode,
                   step_out_target_depth, continue_requested, current_line,
                   data_breakpoints, data_breakpoint_hit, lock, shell, engVars,
                   chanVars, hist, srvVars, cmdVars>>

\* DebugContext::handle_popd: the top of the stack is popped and becomes the
\* current directory, and the shell is told; on an empty stack the exit code
\* becomes 1 and the call fails
HandlePopd(ans) ==
    /\ IF directory_stack # <<>>
       THEN /\ directory_stack' = Front(directory_stack)
            /\ IF Last(directory_stack) \notin Dirs
               THEN /\ ret' = Some([op |-> "popd", ok |-> FALSE])
                    /\ UNCHANGED <<cwd, last_exit_code, shellTick>>
               ELSE /\ cwd' = Last(directory_stack)
                    /\ shellTick' = ~ shellTick
                    /\ last_exit_code' = IF ans.ok THEN ans.code ELSE last_exit_code
                    /\ ret' = Some([op |-> "popd", ok |-> ans.ok])
       ELSE /\ last_exit_code' = 1
            /\ ret' = Some([op |-> "popd", ok |-> FALSE])
            /\ UNCHANGED <<directory_stack, cwd, shellTick>>
    /\ UNCHANGED <<script, editor, requests, variables, call_stack, breakpoints, mode,
                   step_out_target_depth, continue_requested, current_line,
                   data_breakpoints, data_breakpoint_hit, lock, shell, engVars,
                   chanVars, hist, srvVars, cmdVars>>

\* faulty variant of HandleShift: one argument is dropped whatever the count
HandleShiftOne(stack, count) ==
    IF stack # <<>> /\ IsSome(Last(stack).args) /\ count > 0
    THEN [stack EXCEPT ![Len(stack)].args = Some(Tail(Unwrap(@)))]
    ELSE stack

\* DebugContext::handle_shift: args.drain(0..count.min(args.len())) on the top
\* frame, if there is one and it has an argument vector
HandleShift(stack, count) ==
    IF stack # <<>> /\ IsSome(Last(stack).args) /\ count > 0
    THEN LET args == Unwrap(Last(stack).args)
             actual_shift == IF count < Len(args) THEN count ELSE Len(args)
         IN  [stack EXCEPT ![Len(stack)].args =
                               Some(SubSeq(args, actual_shift + 1, Len(args)))]
    ELSE stack

\* the counts SHIFT is called with
ShiftCounts == 0 .. 4

\* handle_shift called on the context
DoShift(count) ==
    /\ call_stack' = HandleShift(call_stack, count)
    /\ ret' = Some([op |-> "shift", count |-> count])
    /\ UNCHANGED <<script, editor, requests, variables, last_exit_code, breakpoints, mode,
                   step_out_target_depth, continue_requested, current_line,
                   data_breakpoints, data_breakpoint_hit, lock, shell, engVars,
                   chanVars, histVars, srvVars, dirVars, cmdVars>>

\* i32::MAX: start, step and end of a numeric FOR are i32
I32Max == 2147483647

\* widest distance between start and end of the numeric loops expanded
MaxForSpan == 3

\* str::replace: every occurrence of `from`, left to right
RECURSIVE Replace(_, _, _)
Replace(text, from, to) ==
    IF Len(text) < Len(from) THEN text
    ELSE IF SubSeq(text, 1, Len(from)) = from
    THEN to \o Replace(SubSeq(text, Len(from) + 1, Len(text)), from, to)
    ELSE <<Head(text)>> \o Replace(Tail(text), from, to)

\* one element of the vector expand_for_loop returns
Iteration(command, variable, current) ==
    [command |-> Replace(command, variable, IntToStr(current)),
     variable |-> variable, value |-> IntToStr(current)]

\* `current += step` leaves the range of i32
AddOverflows(current, step) ==
    \/ step > 0 /\ current > I32Max - step
    \/ step < 0 /\ current < (- I32Max - 1) - step

\* the value a wrapping `current += step` leaves, for an addition that
\* overflows
WrappingAdd(current, step) ==
    IF step > 0
    THEN (current - I32Max - 1) + (step - I32Max - 1)
    ELSE (current + I32Max + 1) + (step + I32Max + 1)

\* the two `while` loops of the Numeric arm, up to the first addition that
\* overflows
RECURSIVE NumericLoop(_, _, _, _, _, _)
NumericLoop(current, step, end, variable, command, iterations) ==
    IF (step > 0 /\ current <= end) \/ (step < 0 /\ current >= end)
    THEN LET pushed == Append(iterations, Iteration(command, variable, current))
         IN  IF AddOverflows(current, step)
             THEN [overflow |-> TRUE, at |-> current, iterations |-> pushed]
             ELSE NumericLoop(current + step, step, end, variable, command, pushed)
    ELSE [overflow |-> FALSE, at |-> current, iterations |-> iterations]

\* DebugContext::expand_for_loop on ForLoopType::Numeric: the outcomes the
\* call can have.  An addition that overflows panics in a build with overflow
\* checks and wraps in a build without; after wrapping, the loop goes on from
\* the wrapped value `resumes`, which is again within the loop's range, so
\* the call has not returned the iterations pushed so far.
ExpandForLoopNumeric(variable, start, step, end, command) ==
    LET r == NumericLoop(start, step, end, variable, command, <<>>)
    IN  IF ~ r.overflow
        THEN { [outcome |-> "ok", iterations |-> r.iterations, resumes |-> 0] }
        ELSE { [outcome |-> "panic", iterations |-> <<>>, resumes |-> 0],
               [outcome |-> "wrapped", iterations |-> r.iterations,
                resumes |-> WrappingAdd(r.at, step)] }

\* the body of the loops expanded: `e %%i`
ForBody == <<"e", " ">> \o LoopVar

\* (start, step, end) of the loops expanded: short loops near zero and at the
\* upper end of i32
ForInputs ==
    { t \in ((0 .. MaxForSpan) \cup {I32Max - 1}) \X (-2 .. 2)
              \X ((0 .. MaxForSpan) \cup {I32Max}) :
        /\ t[3] - t[1] <= MaxForSpan
        /\ t[1] - t[3] <= MaxForSpan }

\* expand_for_loop called on the context
DoExpandFor(start, step, end) ==
    /\ \E r \in ExpandForLoopNumeric(LoopVar, start, step, end, ForBody) :
         ret' = Some([op |-> "for", outcome |-> r.outcome, iterations |-> r.iterations,
                      resumes |-> r.resumes])
    /\ UNCHANGED <<script, editor, requests, ctxVars, lock, shell, engVars,
                   chanVars, histVars, srvVars, dirVars, cmdVars>>

\* the expressions evaluate_expression is called with
EvalExpressions ==
    { ErrorLevelName,
      <<"e","r","r","o","r","L","e","v","e","l">>,
      <<"%">> \o ErrorLevelName \o <<"%">>,
      V,
      <<" ", "V", " ">>,
      <<"%", "V", "%">>,
      <<"%", "V", ":", "~", "0", "%">>,
      <<"X">> }

\* evaluate_expression called on the context
DoEvaluate(expression, ans) ==
    /\ LET r == EvaluateExpression(variables, call_stack, last_exit_code, expression, ans)
       IN  /\ last_exit_code' = r.exit
           /\ shellTick' = IF r.ran THEN ~ shellTick ELSE shellTick
           /\ ret' = Some([op |-> "evaluate", expression |-> expression,
                           ok |-> r.ok, value |-> r.value])
    /\ UNCHANGED <<script, editor, requests, variables, call_stack, breakpoints, mode,
                   step_out_target_depth, continue_requested, current_line,
                   data_breakpoints, data_breakpoint_hit, lock, shell, engVars,
                   chanVars, hist, srvVars, dirVars, cmdVars>>

\* the variable tables and call stacks the calls are made on: no frame, a
\* frame without arguments, a frame with arguments, and a frame with an open
\* scope and a local V above another frame; a global named ERRORLEVEL is
\* what `set ERRORLEVEL=7` leaves
CmdVariables ==
    { EmptyMap, V :> <<"1">>, (V :> <<"1">>) @@ (ErrorLevelName :> <<"7">>) }
CmdStacks ==
    { <<>>,
      << NewFrame(1, None) >>,
      << NewFrame(1, Some(<<"a", "b", "c">>)) >>,
      << NewFrame(1, Some(<<"a", "b", "c">>)),
         [NewFrame(2, Some(<<"a", "b", "c">>)) EXCEPT
             !.has_setlocal = TRUE, !.locals = V :> <<"2">>] >> }

InitCmd ==
    /\ script = 1
    /\ ret = None
    /\ editor = "stopped"
    /\ requests = 0
    /\ variables \in CmdVariables
    /\ call_stack \in CmdStacks
    /\ last_exit_code = 0
    /\ breakpoints = EmptyMap
    /\ mode = "StepInto"
    /\ step_out_target_depth = 0
    /\ continue_requested = FALSE
    /\ current_line = Some(0)
    /\ data_breakpoints = EmptyMap
    /\ data_breakpoint_hit = None
    /\ lock = "free"
    /\ shell = "idle"
    /\ epc = "wait"
    /\ pc = 0
    /\ step_depth = None
    /\ wait_count = 0
    /\ forIdx = 0
    /\ event_ch = <<>>
    /\ output_ch = <<>>
    /\ shellTick = FALSE
    /\ hist = HistInit
    /\ FreshSession

NextCmd ==
    \/ \E path \in {None} \cup {Some(T) : T \in PushdTargets}, ans \in ShellAnswers :
         HandlePushd(path, ans)
    \/ \E ans \in ShellAnswers : HandlePopd(ans)
    \/ \E count \in ShiftCounts : DoShift(count)

SpecCmd == InitCmd /\ [][NextCmd]_vars

\* the calls that compute a result from the context: FOR expansion and
\* expression evaluation
NextEval ==
    \/ \E t \in ForInputs : DoExpandFor(t[1], t[2], t[3])
    \/ \E expression \in EvalExpressions, ans \in ShellAnswers : DoEvaluate(expression, ans)

SpecEval == InitCmd /\ [][NextEval]_vars

-----------------------------------------------------------------------------
(* The command parser: split_composite_command, called on lines over a      *)
(* small alphabet that holds every character the function looks at.         *)

\* longest line enumerated character by character
MaxLineLen == 4

\* faulty variant of FinishParts: the rest of the line is pushed even when
\* it is blank
FinishPartsAlways(parts, current) ==
    Append(parts, [text |-> Trim(current), op |-> None])

\* `if !current.trim().is_empty() { parts.push(CommandPart { text, op: None }) }`
FinishParts(parts, current) ==
    IF Trim(current) # <<>>
    THEN Append(parts, [text |-> Trim(current), op |-> None])
    ELSE parts

\* the `while let Some(ch) = chars.next()` loop of split_composite_command;
\* rest is what `chars` still holds
RECURSIVE SplitLoop(_, _, _, _, _)
SplitLoop(rest, current, in_quotes, escaped, parts) ==
    IF rest = <<>> THEN FinishParts(parts, current)
    ELSE LET ch == Head(rest)
             after == Tail(rest)
             peek == IF after = <<>> THEN "" ELSE Head(after)
         IN  IF escaped
             THEN SplitLoop(after, Append(current, ch), in_quotes, FALSE, parts)
             ELSE IF ch = "^"
             THEN SplitLoop(after, Append(current, ch), in_quotes, TRUE, parts)
             ELSE IF ch = "\""
             THEN SplitLoop(after, Append(current, ch), ~ in_quotes, FALSE, parts)
             ELSE IF ~ in_quotes /\ ch = "&"
             THEN IF peek = "&"
                  THEN SplitLoop(Tail(after), <<>>, in_quotes, FALSE,
                                 Append(parts, [text |-> Trim(current), op |-> Some("And")]))
                  ELSE SplitLoop(after, <<>>, in_quotes, FALSE,
                                 Append(parts, [text |-> Trim(current),
                                                op |-> Some("Unconditional")]))
             ELSE IF ~ in_quotes /\ ch = "|" /\ peek = "|"
             THEN SplitLoop(Tail(after), <<>>, in_quotes, FALSE,
                            Append(parts, [text |-> Trim(current), op |-> Some("Or")]))
             ELSE SplitLoop(after, Append(current, ch), in_quotes, FALSE, parts)

\* split_composite_command
SplitCompositeCommand(line) == SplitLoop(line, <<>>, FALSE, FALSE, <<>>)

\* the characters the function tells apart, and a letter and a blank for the rest
SplitAlphabet == {"a", " ", "&", "|", "\"", "^"}

\* `echo "a & b"` and `echo A & echo B && echo C`, with one letter per word
LineQuoted == <<"a", " ", "\"", "a", " ", "&", " ", "a", "\"">>
LineThree == <<"a", " ", "&", " ", "a", " ", "&", "&", " ", "a">>

\* the lines the function is called with
SplitLines ==
    UNION {[1 .. n -> SplitAlphabet] : n \in 0 .. MaxLineLen} \cup {LineQuoted, LineThree}

\* split_composite_command called on a line
DoSplit(line) ==
    /\ ret' = Some([op |-> "split", line |-> line, parts |-> SplitCompositeCommand(line)])
    /\ UNCHANGED <<script, editor, requests, ctxVars, lock, shell, engVars,
                   chanVars, histVars, srvVars, dirVars, cmdVars>>

InitSplit ==
    /\ InitCmd
    /\ variables = EmptyMap
    /\ call_stack = <<>>

NextSplit == \E line \in SplitLines : DoSplit(line)

SpecSplit == InitSplit /\ [][NextSplit]_vars


-----------------------------------------------------------------------------
(* Plain commands against an interpreter that keeps its own environment.    *)
(* The engine's plain-command arm (dap_runner.rs:624-677) is one step here: *)
(* it holds the context lock from the tracking call to `pc += 1`.  The run  *)
(* is in Continue mode with no line breakpoint, so every round of the run   *)
(* loop goes straight to the line at pc.                                    *)

\* longest run of plain lines executed
MaxPlainLines == 3
\* largest number the interpreter's arithmetic reaches
MaxSessionValue == 3

SetA(k, assign, n) == [Ln("seta") EXCEPT !.key = k, !.val = assign, !.n = n]  \* SET /A k=n, SET /A k+=n
SetP(k) == [Ln("setp") EXCEPT !.key = k]                                      \* SET /P k=
EchoVar(k) == [Ln("echo") EXCEPT !.key = k]                                   \* echo %k%

\* the plain lines executed
PlainLines ==
    { Echo, Set(V, <<"1">>), SetA(V, <<"=">>, 1), SetA(V, <<"+", "=">>, 1), SetP(V) }
\* what the user types at a SET /P prompt: nothing, or a word
PromptInputs == { <<>>, <<"x">> }

\* the number the interpreter reads a value as: text that is no number counts 0
NumOf(s) ==
    IF \E n \in 0 .. MaxSessionValue : IntToStr(n) = s
    THEN CHOOSE n \in 0 .. MaxSessionValue : IntToStr(n) = s
    ELSE 0

\* CmdSession::run(text) when the interpreter answers: its environment after
\* the text, what it printed and its exit code.  SET /A typed at the
\* interpreter's prompt prints the result; SET /P with empty input leaves
\* the variable alone; `echo %k%` of an undefined k prints the text itself.
SessionRun(env, line, input) ==
    LET cur == IF IsSome(env) THEN NumOf(Unwrap(env)) ELSE 0
        crlf == <<"\r", "\n">>
    IN  CASE line.op = "set" ->
               [env |-> Some(line.val), out |-> <<>>, code |-> 0]
          [] line.op = "seta" ->
               LET r == IF line.val = <<"=">> THEN line.n ELSE cur + line.n
               IN  [env |-> Some(IntToStr(r)), out |-> IntToStr(r), code |-> 0]
          [] line.op = "setp" ->
               [env |-> IF input # <<>> THEN Some(input) ELSE env, out |-> <<>>, code |-> 0]
          [] line.op = "echo" ->
               [env |-> env,
                out |-> (IF IsSome(env) THEN Unwrap(env)
                         ELSE <<"%">> \o line.key \o <<"%">>) \o crlf,
                code |-> 0]
          [] OTHER ->
               [env |-> env, out |-> <<"o", "k">> \o crlf, code |-> 0]

\* DebugContext::track_set_command with the runs it makes in the session:
\* `fails` says that the run it makes returns Err
TrackSetLine(vars_, stack, exit_code, env, line, input, fails) ==
    LET same == [variables |-> vars_, call_stack |-> stack, last_exit_code |-> exit_code,
                 env |-> env, calls |-> <<>>]
    IN  CASE line.op = "seta" ->
               IF fails THEN [same EXCEPT !.calls = <<line>>]
               ELSE LET r == SessionRun(env, line, input)
                        t == StoreVar(vars_, stack, line.key, Trim(r.out))
                    IN  [variables |-> t.variables, call_stack |-> t.call_stack,
                         last_exit_code |-> r.code, env |-> r.env, calls |-> <<line>>]
          [] line.op = "setp" ->
               IF fails THEN [same EXCEPT !.calls = <<EchoVar(line.key)>>]
               ELSE LET r == SessionRun(env, EchoVar(line.key), input)
                        t == StoreVar(vars_, stack, line.key, Trim(r.out))
                    IN  [variables |-> t.variables, call_stack |-> t.call_stack,
                         last_exit_code |-> exit_code, env |-> r.env,
                         calls |-> <<EchoVar(line.key)>>]
          [] OTHER ->
               LET t == TrackSetCommand(vars_, stack, line)
               IN  [same EXCEPT !.variables = t.variables, !.call_stack = t.call_stack]

\* the engine executes `line` as a plain command: track_set_command, then
\* run_command, the output, the exit code and the data-breakpoint scan
RunPlainLine(line, input, trackFails, runFails) ==
    /\ epc = "exec" /\ lock = "free"
    /\ pc < MaxPlainLines
    /\ line.op = "seta" /\ line.val # <<"=">> =>
           (IF IsSome(session_env) THEN NumOf(Unwrap(session_env)) ELSE 0)
              + 2 * line.n <= MaxSessionValue
    /\ LET t == TrackSetLine(variables, call_stack, last_exit_code, session_env, line,
                             input, trackFails)
           r == SessionRun(t.env, line, input)
       IN  /\ variables' = t.variables
           /\ call_stack' = t.call_stack
           /\ session_log' = session_log \o t.calls \o <<line>>
           /\ IF runFails
              THEN /\ epc' = "term"
                   /\ session_env' = t.env
                   /\ last_exit_code' = t.last_exit_code
                   /\ ret' = Some([op |-> "plain", line |-> line, ok |-> FALSE])
                   /\ UNCHANGED <<pc, output_ch, event_ch, data_breakpoints,
                                  data_breakpoint_hit>>
              ELSE /\ session_env' = r.env
                   /\ output_ch' = SendOutput(output_ch, r.out)
                   /\ last_exit_code' = r.code
                   /\ LET hits == DataBreakpointHits(t.variables, t.call_stack,
                                                     data_breakpoints)
                      IN  IF hits # {}
                          THEN /\ \E h \in hits : data_breakpoint_hit' = Some(h)
                               /\ event_ch' = Append(event_ch, <<"stopped", pc>>)
                               /\ data_breakpoints' =
                                     UpdateDataBreakpoints(t.variables, t.call_stack,
                                                           data_breakpoints)
                          ELSE /\ data_breakpoint_hit' = None
                               /\ UNCHANGED <<event_ch, data_breakpoints>>
                   /\ pc' = pc + 1
                   /\ ret' = Some([op |-> "plain", line |-> line, ok |-> TRUE])
                   /\ UNCHANGED epc
    /\ UNCHANGED <<script, editor, requests, breakpoints, mode, step_out_target_depth,
                   continue_requested, current_line, lock, shell, step_depth,
                   wait_count, forIdx, histVars, srvVars, dirVars>>

\* most iterations of a FOR line executed here
MaxForRuns == 2

\* the commands a FOR line repeats
ForCommands == { Echo, Set(V, <<"1">>) }

\* the `for (idx, (command, var_name, var_value)) in iterations` loop of the
\* FOR arm (dap_runner.rs:459-505) from iteration idx on: the loop variable
\* is set, the iteration announced, the command tracked and run; a failed
\* run is reported and the loop goes on.  `failing` holds the iterations
\* whose run returns Err.
RECURSIVE ForIterations(_, _, _, _, _)
ForIterations(idx, n, command, failing, st) ==
    IF idx > n THEN st
    ELSE LET w == SetLoopVariable(st.variables, st.call_stack, LoopVar, IntToStr(idx))
             t == TrackSetLine(w.variables, w.call_stack, st.last_exit_code, st.env,
                               command, <<>>, idx \in failing)
             r == SessionRun(t.env, command, <<>>)
             announced == Append(st.output_ch, OutMsg("iter", IntToStr(idx), idx))
         IN  ForIterations(idx + 1, n, command, failing,
               [variables |-> t.variables,
                call_stack |-> t.call_stack,
                last_exit_code |-> IF idx \in failing THEN t.last_exit_code ELSE r.code,
                env |-> IF idx \in failing THEN t.env ELSE r.env,
                calls |-> st.calls \o t.calls \o <<command>>,
                output_ch |-> IF idx \in failing
                              THEN Append(announced, OutMsg("error", <<>>, idx))
                              ELSE SendOutput(announced, r.out)])

\* the engine executes `FOR /L %%i IN (1,1,n) DO command`
RunForLine(n, command, failing) ==
    /\ epc = "exec" /\ lock = "free"
    /\ pc < MaxPlainLines
    /\ LET st == ForIterations(1, n, command, failing,
                   [variables |-> variables, call_stack |-> call_stack,
                    last_exit_code |-> last_exit_code, env |-> session_env,
                    calls |-> <<>>,
                    output_ch |-> Append(output_ch, OutMsg("for", <<>>, n))])
       IN  /\ variables' = st.variables
           /\ call_stack' = st.call_stack
           /\ last_exit_code' = st.last_exit_code
           /\ session_env' = st.env
           /\ session_log' = session_log \o st.calls
           /\ output_ch' = st.output_ch
    /\ pc' = pc + 1
    /\ ret' = Some([op |-> "for", line |-> command, ok |-> TRUE])
    /\ UNCHANGED <<script, editor, requests, breakpoints, mode, step_out_target_depth,
                   continue_requested, current_line, data_breakpoints,
                   data_breakpoint_hit, lock, shell, epc, step_depth, wait_count, forIdx,
                   event_ch, histVars, srvVars, dirVars>>

InitPlain ==
    /\ script = 1
    /\ ret = None
    /\ editor = "running"
    /\ requests = 0
    /\ variables = EmptyMap
    /\ call_stack \in { <<>>, << [NewFrame(1, None) EXCEPT !.has_setlocal = TRUE] >> }
    /\ last_exit_code = 0
    /\ breakpoints = EmptyMap
    /\ mode = "Continue"
    /\ step_out_target_depth = 0
    /\ continue_requested = TRUE
    /\ current_line = None
    /\ data_breakpoints \in { EmptyMap, V :> <<>> }
    /\ data_breakpoint_hit = None
    /\ lock = "free"
    /\ shell = "idle"
    /\ epc = "exec"
    /\ pc = 0
    /\ step_depth = None
    /\ wait_count = 0
    /\ forIdx = 0
    /\ event_ch = <<>>
    /\ output_ch = <<>>
    /\ shellTick = FALSE
    /\ hist = HistInit
    /\ FreshSession

NextPlain ==
    \E line \in PlainLines, input \in PromptInputs, trackFails \in BOOLEAN,
       runFails \in BOOLEAN :
         RunPlainLine(line, input, trackFails, runFails)

\* plain lines and FOR lines
NextLines ==
    \/ NextPlain
    \/ \E n \in 0 .. MaxForRuns, command \in ForCommands, failing \in SUBSET (1 .. MaxForRuns) :
         RunForLine(n, command, failing)

SpecLines == InitPlain /\ [][NextLines]_vars

SpecPlain == InitPlain /\ [][NextPlain]_vars
-----------------------------------------------------------------------------
(* Properties *)

\* C1: when the engine decides to stop at pc it sends exactly one stop event
\* for pc, then clears continue_requested and records current_line = pc; from
\* the decision until it leaves the wait loop it sends nothing else, starts
\* no shell run and leaves pc and the call stack alone; it leaves the wait
\* loop only when continue_requested is up or the watchdog has expired, and
\* only the session raises continue_requested.
C1_StopProtocol ==
    [][ /\ (epc = "send" /\ epc' # "send") =>
              /\ epc' = "clear"
              /\ Len(event_ch') = Len(event_ch) + 1
              /\ Front(event_ch') = event_ch
              /\ Last(event_ch')[1] # "terminated"
              /\ Last(event_ch')[2] = pc
        /\ (epc = "clear" /\ epc' # "clear") =>
              /\ epc' = "wait"
              /\ continue_requested' = FALSE
              /\ current_line' = Some(pc)
        /\ epc \in {"clear", "wait"} => Len(event_ch') <= Len(event_ch)
        /\ epc \in {"send", "clear", "wait"} =>
              /\ pc' = pc
              /\ call_stack' = call_stack
              /\ shellTick' = shellTick
              /\ shell' = "idle"
        /\ (epc = "wait" /\ epc' # "wait") =>
              \/ epc' = "exec" /\ continue_requested
              \/ epc' = "term" /\ wait_count >= MaxWaitPolls
        /\ (continue_requested' /\ ~ continue_requested) =>
              UNCHANGED <<engVars, shell, shellTick, chanVars>>
      ]_vars

\* the engine stopped at a line after the first, the session asked for `next`,
\* and the wait loop has seen the request
C1_Witness ==
    /\ epc = "exec"
    /\ pc > 0
    /\ current_line = Some(pc)
    /\ continue_requested
    /\ mode = "StepOver"

\* C2: a resume request raised after the stop event of the current stop was
\* sent stays raised until the wait loop consumes it.
C2_ResumeConsumed == hist.pending => continue_requested

\* C3: a CALL to a known label pushes exactly one frame whose return_pc is
\* pc + 1 and moves pc to the label's line; EXIT /B, GOTO :EOF and running
\* past the last line, with a frame on the stack, pop exactly one frame and
\* resume at its return_pc; no other step changes the depth; so a return
\* restores the depth from before the CALL and lands on the line after it.
C3_CallReturn ==
    [][ LET engineStep == engVars' # engVars
            atEnd == epc = "top" /\ pc >= NumLines
            atCall == epc = "exec" /\ LineAt(pc).op = "call"
            atLeave == /\ epc = "exec"
                       /\ \/ LineAt(pc).op = "exitb"
                          \/ LineAt(pc).op = "goto" /\ LineAt(pc).label = "eof"
            known(l) == \E i \in DOMAIN Logical :
                           Logical[i].op = "label" /\ Logical[i].label = l
        IN  /\ (engineStep /\ atCall /\ known(LineAt(pc).label)) =>
                  /\ Len(call_stack') = Len(call_stack) + 1
                  /\ Front(call_stack') = call_stack
                  /\ Last(call_stack').return_pc = pc + 1
                  /\ LineAt(pc').op = "label"
                  /\ LineAt(pc').label = LineAt(pc).label
            /\ (engineStep /\ (atEnd \/ atLeave) /\ call_stack # <<>>) =>
                  /\ call_stack' = Front(call_stack)
                  /\ pc' = Last(call_stack).return_pc
                  /\ Len(call_stack') = Last(hist.sites).depth
                  /\ pc' = Last(hist.sites).pc + 1
            /\ Len(call_stack') > Len(call_stack) => atCall
            /\ Len(call_stack') < Len(call_stack) => atEnd \/ atLeave
      ]_vars

\* the nested script is back in subroutine a, on the line after `call :b`,
\* one frame deep
C3_Witness ==
    /\ script = 2
    /\ pc = 4
    /\ epc = "top"
    /\ Len(call_stack) = 1
    /\ call_stack[1].return_pc = 1

\* C4: in Continue mode should_stop_at(p) answers true iff there is a
\* breakpoint at p and it has no condition, or the condition's value trimmed
\* is not empty, not "0" and not "false" in any letter case, or evaluating
\* the condition fails; without a breakpoint at p it answers false.
C4_ContinueStop ==
    [][ \A p \in ApiLines, ans \in ShellAnswers :
          (ApiShouldStopAt(p, ans) /\ mode = "Continue") =>
             LET expected ==
                   /\ p \in DOMAIN breakpoints
                   /\ \/ breakpoints[p].condition = None
                      \/ LET r == EvaluateExpression(variables, call_stack, last_exit_code,
                                                     Unwrap(breakpoints[p].condition), ans)
                             t == Trim(r.value)
                             lowered == [i \in DOMAIN t |-> ToAsciiLower(t[i])]
                         IN  \/ ~ r.ok
                             \/ (t # <<>> /\ t # <<"0">> /\ lowered # <<"f","a","l","s","e">>)
             IN  Unwrap(ret').stop <=> expected
      ]_vars

\* should_stop_at has just answered false at a breakpoint whose condition is
\* the variable V, holding "FALSE"
C4_Witness ==
    /\ epc = "api"
    /\ mode = "Continue"
    /\ ret = Some([op |-> "should_stop_at", line |-> 0, stop |-> FALSE])
    /\ 0 \in DOMAIN breakpoints
    /\ breakpoints[0].condition = Some(V)
    /\ V \in DOMAIN GetVisibleVariables(variables, call_stack)
    /\ GetVisibleVariables(variables, call_stack)[V] = <<"F","A","L","S","E">>

\* C5: after a `next` issued while the engine is stopped at depth d, the
\* engine passes every executable line it reaches at a depth above d and
\* stops at the first one it reaches at depth d or less.
C5_StepOver ==
    [][ (IsSome(hist.step) /\ epc = "top" /\ epc' \in {"send", "exec"}) =>
           (epc' = "send" <=> Len(call_stack) <= Unwrap(hist.step))
      ]_vars

\* C6: the stepOut handler leaves step_out_target_depth at the depth minus
\* one, saturating at zero.
C6_StepOutTarget ==
    [][ HandleStepOut => step_out_target_depth' = SaturatingDec(Len(call_stack)) ]_vars

\* C7: a run that ends by running past the last line, by EXIT /B or by
\* GOTO :EOF has an empty call stack and sends exactly one `terminated`
\* event; a `terminated` event carries pc 0 and nothing follows it on the
\* event channel.
C7_TerminatedLast ==
    /\ hist.terminated <= 1
    /\ \A i \in DOMAIN event_ch :
          event_ch[i][1] = "terminated" => event_ch[i][2] = 0 /\ i = Len(event_ch)
    /\ editor = "terminated" => event_ch = <<>>
    /\ hist.endCause \in {"eof", "exitb", "gotoeof"} =>
          /\ call_stack = <<>>
          /\ epc \in {"term", "done"}
          /\ epc = "term" => hist.terminated = 0
          /\ epc = "done" => hist.terminated = 1

\* the run ran past the last line with an empty stack and its `terminated`
\* event is the last one on the channel
C7_Witness ==
    /\ epc = "done"
    /\ hist.endCause = "eof"
    /\ hist.terminated = 1
    /\ event_ch # <<>>
    /\ Last(event_ch) = <<"terminated", 0>>

\* C8: once a shell run made for a script line has failed, the engine starts
\* no further shell run, moves to no other line, and is on its way to the
\* `terminated` event or has sent it.
C8_ShellFailureEndsRun ==
    [][ hist.failed =>
           /\ shellTick' = shellTick
           /\ pc' = pc
           /\ epc' \in {"term", "done"}
      ]_vars

\* C9: a CALL or GOTO to a label nobody defines pushes no frame, leaves pc
\* where it is, starts no shell run then or later, and the run ends with the
\* `terminated` event.
C9_UnknownLabel ==
    [][ LET known(l) == \E i \in DOMAIN Logical :
                           Logical[i].op = "label" /\ Logical[i].label = l
            atUnknown == /\ epc = "exec"
                         /\ \/ LineAt(pc).op = "call"
                            \/ LineAt(pc).op = "goto" /\ LineAt(pc).label # "eof"
                         /\ ~ known(LineAt(pc).label)
        IN  /\ (atUnknown /\ engVars' # engVars) =>
                  /\ epc' = "term"
                  /\ hist'.endCause = "label"
            /\ (atUnknown \/ hist.endCause = "label") =>
                  /\ pc' = pc
                  /\ call_stack' = call_stack
                  /\ shellTick' = shellTick
                  /\ shell' = "idle"
            /\ hist.endCause = "label" =>
                  /\ epc \in {"term", "done"}
                  /\ epc' \in {"term", "done"}
                  /\ (epc = "term" /\ epc' = "done") =>
                        event_ch' = Append(event_ch, <<"terminated", 0>>)
      ]_vars

\* the GOTO to a missing label inside a subroutine has ended the run: the
\* frame of the CALL is still there, pc is still on the GOTO
C9_Witness ==
    /\ script = 4
    /\ hist.endCause = "label"
    /\ epc = "done"
    /\ pc = 3
    /\ Len(call_stack) = 1
    /\ hist.terminated = 1

\* C10: while the shell works on a command of the execution thread, the
\* context lock is free.
C10_NoLockAcrossShell == shell = "busy" => lock = "free"

C12_ScopeRule ==
    [][ /\ (\E i \in DOMAIN call_stack : call_stack[i].has_setlocal) =>
              /\ variables' = variables
              /\ \A name \in ScopeNames, val \in ScopeValues :
                    (\/ ScopeTrackSet(name, val)
                     \/ ScopeSetLoopVariable(name, val)
                     \/ \E ans \in ShellAnswers : ans.ok /\ ScopeSetVariable(name, val, ans)) =>
                       /\ name \in DOMAIN Last(call_stack').locals
                       /\ Last(call_stack').locals[name] = val
        /\ (ScopeEndlocal /\ TopHasSetlocal(call_stack)) =>
              GetVisibleVariables(variables', call_stack') = variables
      ]_vars

\* C13: after every step a name is visible iff it is in the global map or in
\* the locals of the top frame while that frame's scope is active, and its
\* visible value is the top frame's local one if there is one, else the
\* global one; no step changes the locals of a frame below the top.
C13_TopFrameScope ==
    [][ /\ \A i \in 1 .. Len(call_stack) - 1 :
              i <= Len(call_stack') => call_stack'[i].locals = call_stack[i].locals
        /\ LET visible == GetVisibleVariables(variables', call_stack')
               scoped == call_stack' # <<>> /\ Last(call_stack').has_setlocal
               top == Last(call_stack').locals
           IN  \A n \in ScopeNames :
                  /\ n \in DOMAIN visible <=>
                        (n \in DOMAIN variables' \/ (scoped /\ n \in DOMAIN top))
                  /\ n \in DOMAIN visible =>
                        visible[n] = IF scoped /\ n \in DOMAIN top THEN top[n]
                                     ELSE variables'[n]
      ]_vars

\* the caller's scope holds V = 1, the callee on top has no scope and has
\* written W = 2, which went to the globals: V is not visible, W is
C13_Witness ==
    /\ epc = "api"
    /\ Len(call_stack) = 2
    /\ call_stack[1].has_setlocal
    /\ V \in DOMAIN call_stack[1].locals
    /\ ~ call_stack[2].has_setlocal
    /\ V \notin DOMAIN variables
    /\ W \in DOMAIN variables
    /\ variables[W] = <<"2">>
    /\ DOMAIN GetVisibleVariables(variables, call_stack) = {W}

\* C14: last_exit_code is the exit code the shell returned for the most
\* recent run made through the context.
C14_LastExitCode == IsSome(hist.shellCode) => last_exit_code = Unwrap(hist.shellCode)

\* C15 as stated: with v the only data breakpoint, check_data_breakpoints
\* answers true iff a command has changed v's visible value since the
\* breakpoint was added or last updated and no check has answered true since
\* that change; with no data breakpoint left it answers false.
C15_DataBreakpointOnce ==
    [][ DataCheck =>
          /\ DOMAIN data_breakpoints = {V} =>
                (Unwrap(ret').stop <=> (V \in hist.moved /\ ~ hist.fired))
          /\ data_breakpoints = EmptyMap => ~ Unwrap(ret').stop
      ]_vars

\* C15 amended: check_data_breakpoints answers true iff the visible value of
\* some data breakpoint's variable (the empty string if it is unset) differs
\* from the value it had when the breakpoint was added or last updated, on
\* every call and not only the first; it then records such a variable with
\* both values; removed breakpoints play no part.
C15_DataBreakpointBaseline ==
    [][ DataCheck =>
          LET differs(n) == VisibleValue(variables, call_stack, n) # hist.base[n]
              hit == data_breakpoint_hit'
          IN  /\ DOMAIN data_breakpoints = DOMAIN hist.base
              /\ Unwrap(ret').stop <=> \E n \in DOMAIN hist.base : differs(n)
              /\ IF Unwrap(ret').stop
                 THEN /\ IsSome(hit)
                      /\ Unwrap(hit)[1] \in DOMAIN hist.base
                      /\ differs(Unwrap(hit)[1])
                      /\ Unwrap(hit)[2] = hist.base[Unwrap(hit)[1]]
                      /\ Unwrap(hit)[3] = VisibleValue(variables, call_stack, Unwrap(hit)[1])
                 ELSE hit = None
      ]_vars

\* V was 1 when its data breakpoint was last updated, a command made it 2, a
\* check has answered true, and the next one has answered true again
C15_Witness ==
    /\ epc = "api"
    /\ ret = Some([op |-> "check_data_breakpoints", line |-> 0, stop |-> TRUE])
    /\ hist.fired
    /\ DOMAIN data_breakpoints = {V}
    /\ data_breakpoints[V] = <<"1">>
    /\ data_breakpoint_hit = Some(<<V, <<"1">>, <<"2">>>>)
    /\ VisibleValue(variables, call_stack, V) = <<"2">>


\* C16: a setBreakpoints request replaces the breakpoints of its source: once
\* it is handled the context's breakpoint table holds breakpoints at exactly
\* the logical lines mapped from that request.
C16_SetBreakpointsReplaces ==
    [][ \A payload \in BpPayloads :
          (HandleSetBreakpoints /\ breakpoints' = AddRequested(breakpoints, payload))
          => DOMAIN breakpoints' = DOMAIN AddRequested(EmptyMap, payload) ]_vars

\* C17 as stated: continue, next, stepIn, stepOut and pause each set the run
\* mode and raise continue_requested, and pause also tells the editor of a
\* stop.
C17_AllRaiseContinue ==
    [][ /\ (HandleContinue \/ HandleNext \/ HandleStepIn \/ HandleStepOut \/ HandlePause)
           => continue_requested'
        /\ HandleContinue => mode' = "Continue"
        /\ HandleNext => mode' = "StepOver"
        /\ HandleStepIn => mode' = "StepInto"
        /\ HandleStepOut => mode' = "StepOut"
        /\ HandlePause => mode' = "StepInto" /\ editor' = "stopped" ]_vars

\* C17 amended: continue, next, stepIn and stepOut set the run mode to
\* Continue, StepOver, StepInto and StepOut and raise continue_requested;
\* pause sets the mode to StepInto, leaves continue_requested as it is and
\* tells the editor of a stop.
C17_ResumeRaisesPauseDoesNot ==
    [][ /\ (HandleContinue \/ HandleNext \/ HandleStepIn \/ HandleStepOut)
           => continue_requested'
        /\ HandleContinue => mode' = "Continue"
        /\ HandleNext => mode' = "StepOver"
        /\ HandleStepIn => mode' = "StepInto"
        /\ HandleStepOut => mode' = "StepOut"
        /\ HandlePause => /\ mode' = "StepInto"
                          /\ continue_requested' = continue_requested
                          /\ editor' = "stopped" ]_vars

\* the editor was told of a stop by a pause request, which the engine, still
\* running with continue_requested low, has not made
C17_Witness ==
    /\ editor = "stopped"
    /\ mode = "StepInto"
    /\ ~ continue_requested
    /\ requests > 0
    /\ epc \notin {"clear", "wait", "term", "returned_err"}
    /\ event_ch = <<>>

\* C18 as stated: a stackTrace request answers with one frame more than the
\* call stack holds: the first at the physical line of current_line, and one
\* per call frame at the physical line of the frame's return_pc, the statement
\* after the CALL.
C18_StackTraceReturnLine ==
    [][ HandleStackTrace =>
          LET frames == Unwrap(ret')
          IN  /\ Len(frames) = Len(call_stack) + 1
              /\ IsSome(current_line) => frames[1].line = PhysStart(Unwrap(current_line)) + 1
              /\ \A i \in DOMAIN call_stack :
                    /\ i + 1 \in DOMAIN frames
                    /\ call_stack[i].return_pc < NumLines
                         => frames[i + 1].line = PhysStart(call_stack[i].return_pc) + 1 ]_vars

\* C18 amended: a stackTrace request answers with one frame more than the
\* call stack holds: the first at the physical line of current_line, then one
\* per call frame, oldest call first, at the physical line of the CALL that
\* pushed the frame (the logical line before its return_pc).
C18_StackTraceCallLine ==
    [][ HandleStackTrace =>
          LET frames == Unwrap(ret')
          IN  /\ Len(frames) = Len(call_stack) + 1
              /\ IsSome(current_line) => frames[1].line = PhysStart(Unwrap(current_line)) + 1
              /\ \A i \in DOMAIN call_stack :
                    \E p \in 0 .. NumLines - 1 :
                       /\ LineAt(p).op = "call"
                       /\ call_stack[i].return_pc = p + 1
                       /\ frames[i + 1].line = PhysStart(p) + 1 ]_vars

\* stopped in :sub of the first script, at its SETLOCAL: two frames, the second
\* at line 1, the `call :sub`
C18_Witness ==
    /\ script = 1
    /\ epc \in {"clear", "wait"}
    /\ editor = "stopped"
    /\ current_line = Some(4)
    /\ Len(call_stack) = 1
    /\ ret = Some(<< [id |-> 0, line |-> 5], [id |-> 1, line |-> 1] >>)

\* the first logical line that is neither a label nor a comment
FirstCommand ==
    CHOOSE p \in 0 .. NumLines - 1 :
        /\ ~ IsSkipped(LineAt(p))
        /\ \A q \in 0 .. p - 1 : IsSkipped(LineAt(q))

\* the context's mode when the execution thread is spawned, and where the
\* engine may stop after a launch without stopOnEntry
LaunchModeAndStops ==
    /\ [](editor = "launching" => mode = IF hist.entry THEN "StepInto" ELSE "Continue")
    /\ [][ (~ hist.entry /\ epc = "top" /\ epc' = "send")
           => \E ans \in ShellAnswers :
                 ShouldStopAt(variables, call_stack, last_exit_code, breakpoints, mode,
                              step_out_target_depth, pc, ans).stop ]_vars

C20_StopReasons ==
    \A i \in DOMAIN event_ch :
        event_ch[i][1] # "terminated"
        => event_ch[i][1] \in {"entry", "step", "breakpoint", "pause", "data breakpoint"}

\* C21: in Continue mode every should_stop_at visit to a line with a
\* breakpoint adds exactly one to that breakpoint's hit_count, whatever its
\* condition evaluates to; adding the breakpoint sets the count to zero and
\* nothing else changes it, so after k visits since it was added the count
\* is k.
C21_HitCount ==
    [][ \A p \in DOMAIN breakpoints' :
          LET visited == /\ mode = "Continue"
                         /\ p \in DOMAIN breakpoints
                         /\ \E ans \in ShellAnswers : ApiShouldStopAt(p, ans)
              added == \E cond \in ApiConditions : ApiAddBreakpoint(p, cond)
          IN  breakpoints'[p].hit_count =
                 IF added THEN 0
                 ELSE IF visited THEN breakpoints[p].hit_count + 1
                 ELSE breakpoints[p].hit_count ]_vars

\* the breakpoint at line 0 was visited twice in Continue mode and its
\* condition was false the second time
C21_Witness ==
    /\ epc = "api"
    /\ mode = "Continue"
    /\ 0 \in DOMAIN breakpoints
    /\ breakpoints[0].condition = Some(V)
    /\ breakpoints[0].hit_count = 2
    /\ ret = Some([op |-> "should_stop_at", line |-> 0, stop |-> FALSE])

\* C22: a breakpoint requested at a line outside the physical lines 1 ..
\* NumLines is dropped, neither installed nor echoed, and the response still
\* succeeds; every requested line L within them is installed at logical line
\* phys_to_logical[L - 1] and echoed with verified = true.
C22_OutOfRangeDropped ==
    [][ \A payload \in BpPayloads :
          (SessSetBreakpoints /\ breakpoints' = AddRequested(breakpoints, payload))
          => LET inRange == {i \in DOMAIN payload : payload[i].line \in 1 .. NumLines}
                 echo == Unwrap(response').body
             IN  /\ Unwrap(response').success
                 /\ {echo[j].line : j \in DOMAIN echo} = {payload[i].line : i \in inRange}
                 /\ \A j \in DOMAIN echo : echo[j].verified
                 /\ \A i \in inRange :
                       PhysToLogical[payload[i].line - 1] \in DOMAIN breakpoints'
                 /\ DOMAIN breakpoints' \ DOMAIN breakpoints
                       \subseteq {PhysToLogical[payload[i].line - 1] : i \in inRange} ]_vars

\* C30: the messages the session writes carry the seq values 1, 2, 3, ...: each
\* is one greater than the message before it and the first is 1, so no two
\* share a seq.
C30_SeqMonotonic ==
    /\ \A i \in DOMAIN sent : sent[i] = i
    /\ seq = Len(sent)

\* a response, then a response and an event, have been written
C30_Witness ==
    /\ sent = <<1, 2, 3>>
    /\ seq = 3
    /\ IsSome(response) /\ Unwrap(response).kind = "pause"

\* C23 as stated: a setVariable request naming ERRORLEVEL in any letter case
\* is answered with a failure and changes neither the variable tables,
\* last_exit_code nor the shell; with any other non-empty name the value is
\* stored in the top frame's locals if that frame's scope is active and in
\* the global map otherwise.
C23_SetVariableStores ==
    [][ \A name \in SetVariableNames, value \in SetVariableValues, ans \in ShellAnswers :
          HandleSetVariable(name, value, ans)
          => IF EqIgnoreAsciiCase(name, ErrorLevelName)
             THEN /\ ~ Unwrap(response').success
                  /\ UNCHANGED <<variables, call_stack, last_exit_code, shellTick>>
             ELSE name # <<>>
                  => IF TopHasSetlocal(call_stack)
                     THEN /\ name \in DOMAIN Last(call_stack').locals
                          /\ Last(call_stack').locals[name] = value
                     ELSE /\ name \in DOMAIN variables'
                          /\ variables'[name] = value ]_vars

\* C23: a setVariable request naming ERRORLEVEL in any letter case, or no
\* name, is answered with a failure and changes neither the variable tables,
\* last_exit_code nor the shell.  With any other name `SET name=value` is run
\* in the shell: if the run succeeds the value is stored in the top frame's
\* locals when that frame's scope is active and in the global map otherwise,
\* nothing else in the tables changes, last_exit_code becomes the run's exit
\* code and the response is a success carrying the value; if the run fails
\* the response is a failure and tables and last_exit_code are unchanged.
C23_SetVariableStoresIfShellRuns ==
    [][ \A name \in SetVariableNames, value \in SetVariableValues, ans \in ShellAnswers :
          HandleSetVariable(name, value, ans)
          => IF EqIgnoreAsciiCase(name, ErrorLevelName) \/ name = <<>>
             THEN /\ ~ Unwrap(response').success
                  /\ UNCHANGED <<variables, call_stack, last_exit_code, shellTick>>
             ELSE IF ans.ok
             THEN /\ Unwrap(response').success
                  /\ Unwrap(response').body = value
                  /\ last_exit_code' = ans.code
                  /\ shellTick' # shellTick
                  /\ IF TopHasSetlocal(call_stack)
                     THEN /\ Last(call_stack').locals =
                                Insert(Last(call_stack).locals, name, value)
                          /\ variables' = variables
                          /\ Front(call_stack') = Front(call_stack)
                     ELSE /\ variables' = Insert(variables, name, value)
                          /\ call_stack' = call_stack
             ELSE /\ ~ Unwrap(response').success
                  /\ UNCHANGED <<variables, call_stack, last_exit_code>> ]_vars

\* a value stored in the active scope of the top frame, answered with a success
C23_Witness ==
    /\ IsSome(response)
    /\ Unwrap(response).kind = "value"
    /\ Unwrap(response).success
    /\ TopHasSetlocal(call_stack)
    /\ V \in DOMAIN Last(call_stack).locals
    /\ Last(call_stack).locals[V] = <<"2">>
    /\ V \notin DOMAIN variables

\* the watch list holds no expression twice
NoDuplicateWatch ==
    \A i, j \in DOMAIN watch_expressions :
        watch_expressions[i] = watch_expressions[j] => i = j

\* what add_watch is specified to leave: the list, with the expression at its
\* end if it was absent
WatchAdded(expression) ==
    IF \E i \in DOMAIN watch_expressions : watch_expressions[i] = expression
    THEN watch_expressions
    ELSE watch_expressions \o <<expression>>

\* C28 as stated: the watch list never holds an expression twice; add_watch
\* and every evaluate request with context "watch" append the expression iff
\* it is absent, remove_watch removes it, and an evaluate request with
\* another context leaves the list unchanged.
C28_WatchNoDuplicates ==
    /\ []NoDuplicateWatch
    /\ [][ /\ \A e \in WatchExpressions, ans \in ShellAnswers :
                /\ HandleEvaluate(e, "watch", ans) => watch_expressions' = WatchAdded(e)
                /\ HandleEvaluate(e, "hover", ans) => UNCHANGED watch_expressions
                /\ DoAddWatch(e) => watch_expressions' = WatchAdded(e)
                /\ DoRemoveWatch(e) =>
                      \A i \in DOMAIN watch_expressions' : watch_expressions'[i] # e ]_vars

\* C28: the watch list never holds an expression twice; add_watch, and an
\* evaluate request with context "watch" whose expression is not empty,
\* append the expression iff it is absent, keeping the order of insertion;
\* remove_watch removes it and keeps the others in order; an evaluate request
\* with another context, or with an empty expression, leaves the list
\* unchanged.
C28_WatchNoDuplicatesNonEmpty ==
    /\ []NoDuplicateWatch
    /\ [][ /\ \A e \in WatchExpressions, ans \in ShellAnswers :
                /\ HandleEvaluate(e, "watch", ans) =>
                      watch_expressions' = IF e = <<>> THEN watch_expressions
                                           ELSE WatchAdded(e)
                /\ HandleEvaluate(e, "hover", ans) => UNCHANGED watch_expressions
                /\ DoAddWatch(e) => watch_expressions' = WatchAdded(e)
                /\ DoRemoveWatch(e) =>
                      /\ \A i \in DOMAIN watch_expressions' : watch_expressions'[i] # e
                      /\ \E i \in DOMAIN watch_expressions :
                            watch_expressions' =
                               SubSeq(watch_expressions, 1, i - 1)
                               \o SubSeq(watch_expressions, i + 1, Len(watch_expressions)) ]_vars

\* two watches, the second added by an evaluate request that found the first
\* already present
C28_Witness ==
    /\ watch_expressions = <<V, <<"%", "X", "%">> >>
    /\ IsSome(response)
    /\ Unwrap(response).kind \in {"result", "error"}

C25_Shift ==
    [][ \A n \in ShiftCounts :
          DoShift(n)
          => /\ UNCHANGED <<variables, last_exit_code, breakpoints, mode, data_breakpoints,
                            directory_stack, cwd, shellTick>>
             /\ IF call_stack = <<>> \/ call_stack[Len(call_stack)].args = <<>>
                THEN call_stack' = call_stack
                ELSE LET top == call_stack[Len(call_stack)]
                         top2 == call_stack'[Len(call_stack')]
                         old == top.args[1]
                         new == top2.args[1]
                         k == IF n <= Len(old) THEN n ELSE Len(old)
                     IN  /\ Len(call_stack') = Len(call_stack)
                         /\ \A i \in 1 .. Len(call_stack) - 1 : call_stack'[i] = call_stack[i]
                         /\ Len(top2.args) = 1
                         /\ Len(new) = Len(old) - k
                         /\ \A i \in 1 .. Len(new) : new[i] = old[i + k]
                         /\ top2.locals = top.locals
                         /\ top2.has_setlocal = top.has_setlocal
                         /\ top2.return_pc = top.return_pc ]_vars

\* two of three arguments shifted away in a frame with an open scope, the
\* frame below untouched
C25_Witness ==
    /\ ret = Some([op |-> "shift", count |-> 2])
    /\ Len(call_stack) = 2
    /\ call_stack[2].args = Some(<<"c">>)
    /\ call_stack[2].has_setlocal
    /\ call_stack[1].args = Some(<<"a", "b", "c">>)

\* C26: expand_for_loop on a numeric loop (start, step, end) returns, in
\* order, exactly the values start, start + step, ... that are <= end when
\* step > 0 or >= end when step < 0, none when step = 0, each with the body in
\* which the loop variable is replaced by the value.
C26_NumericFor ==
    [][ \A t \in ForInputs :
          DoExpandFor(t[1], t[2], t[3])
          => LET start == t[1]
                 step == t[2]
                 end == t[3]
                 ks == IF step > 0 THEN {k \in 0 .. MaxForSpan : k * step <= end - start}
                       ELSE IF step < 0
                       THEN {k \in 0 .. MaxForSpan : k * step >= end - start}
                       ELSE {}
                 got == Unwrap(ret').iterations
             IN  /\ Unwrap(ret').outcome = "ok"
                 /\ Len(got) = Cardinality(ks)
                 /\ \A i \in 1 .. Len(got) :
                       /\ got[i].value = IntToStr(start + (i - 1) * step)
                       /\ got[i].command = <<"e", " ">> \o got[i].value ]_vars

\* C27 as stated: evaluate_expression returns the decimal string of
\* last_exit_code for ERRORLEVEL in any case and for %ERRORLEVEL%; for a bare
\* %NAME% without a colon, and for a bare identifier without space, =, & or
\* :, that names a visible variable it returns that variable's scope-aware
\* value; in all these cases the shell is not called and last_exit_code and
\* the variable tables are unchanged.
C27_EvaluateSpecialCases ==
    [][ \A expression \in EvalExpressions, ans \in ShellAnswers :
          (/\ Unwrap(ret').op = "evaluate"
           /\ Unwrap(ret').expression = expression
           /\ DoEvaluate(expression, ans))
          => LET expr == Trim(expression)
                 top == call_stack[Len(call_stack)]
                 scoped == call_stack # <<>> /\ top.has_setlocal
                 visible(n) == (scoped /\ n \in DOMAIN top.locals) \/ n \in DOMAIN variables
                 value(n) == IF scoped /\ n \in DOMAIN top.locals
                             THEN top.locals[n] ELSE variables[n]
                 isErrorLevel == \/ EqIgnoreAsciiCase(expr, ErrorLevelName)
                                 \/ expr = <<"%">> \o ErrorLevelName \o <<"%">>
                 barePercent == /\ Len(expr) > 2 /\ expr[1] = "%" /\ expr[Len(expr)] = "%"
                                /\ ~ Contains(SubSeq(expr, 2, Len(expr) - 1), ":")
                 bareIdent == /\ ~ (expr # <<>> /\ expr[1] = "%" /\ expr[Len(expr)] = "%")
                              /\ \A c \in {" ", "=", "&", ":"} : ~ Contains(expr, c)
                 quiet == /\ Unwrap(ret').ok
                          /\ UNCHANGED <<shellTick, last_exit_code, variables, call_stack>>
             IN  /\ isErrorLevel
                    => quiet /\ Unwrap(ret').value = IntToStr(last_exit_code)
                 /\ (barePercent /\ visible(SubSeq(expr, 2, Len(expr) - 1)))
                    => quiet /\ Unwrap(ret').value = value(SubSeq(expr, 2, Len(expr) - 1))
                 /\ (bareIdent /\ visible(expr))
                    => quiet /\ Unwrap(ret').value = value(expr) ]_vars

\* C27: evaluate_expression returns the decimal string of last_exit_code for
\* ERRORLEVEL in any case and for %ERRORLEVEL%, whether or not a variable of
\* that name is visible; for any other expression that is a bare %NAME%
\* without a colon, or a bare identifier without space, =, & or :, and names
\* a visible variable, it returns that variable's scope-aware value; in all
\* these cases the shell is not called and last_exit_code and the variable
\* tables are unchanged.
C27_EvaluateErrorLevelFirst ==
    [][ \A expression \in EvalExpressions, ans \in ShellAnswers :
          (/\ Unwrap(ret').op = "evaluate"
           /\ Unwrap(ret').expression = expression
           /\ DoEvaluate(expression, ans))
          => LET expr == Trim(expression)
                 top == call_stack[Len(call_stack)]
                 scoped == call_stack # <<>> /\ top.has_setlocal
                 visible(n) == (scoped /\ n \in DOMAIN top.locals) \/ n \in DOMAIN variables
                 value(n) == IF scoped /\ n \in DOMAIN top.locals
                             THEN top.locals[n] ELSE variables[n]
                 isErrorLevel == \/ EqIgnoreAsciiCase(expr, ErrorLevelName)
                                 \/ expr = <<"%">> \o ErrorLevelName \o <<"%">>
                 barePercent == /\ Len(expr) > 2 /\ expr[1] = "%" /\ expr[Len(expr)] = "%"
                                /\ ~ Contains(SubSeq(expr, 2, Len(expr) - 1), ":")
                 bareIdent == /\ ~ (expr # <<>> /\ expr[1] = "%" /\ expr[Len(expr)] = "%")
                              /\ \A c \in {" ", "=", "&", ":"} : ~ Contains(expr, c)
                 quiet == /\ Unwrap(ret').ok
                          /\ UNCHANGED <<shellTick, last_exit_code, variables, call_stack>>
             IN  IF isErrorLevel
                 THEN quiet /\ Unwrap(ret').value = IntToStr(last_exit_code)
                 ELSE /\ (barePercent /\ visible(SubSeq(expr, 2, Len(expr) - 1)))
                         => quiet /\ Unwrap(ret').value = value(SubSeq(expr, 2, Len(expr) - 1))
                      /\ (bareIdent /\ visible(expr))
                         => quiet /\ Unwrap(ret').value = value(expr) ]_vars

\* %V% evaluated to the local value that shadows the global one, after a
\* shell run had set the exit code
C27_Witness ==
    /\ ret = Some([op |-> "evaluate", expression |-> <<"%", "V", "%">>,
                   ok |-> TRUE, value |-> <<"2">>])
    /\ last_exit_code = 1
    /\ V \in DOMAIN variables
    /\ variables[V] = <<"1">>

\* C29: a stopped engine whose first MaxWaitPolls polls do not find
\* continue_requested raised leaves the wait loop at the next poll, runs
\* neither the stopped line nor any later one, and sends `terminated`: the
\* wait loop is always left, for the execute block only by a poll that found
\* continue_requested raised and otherwise by the watchdog; after the
\* watchdog the program counter stays, no shell run starts, and the
\* terminated event is sent.
C29_Watchdog ==
    /\ [][ /\ (WaitPoll /\ wait_count >= MaxWaitPolls)
              => (epc' = "term" /\ hist'.endCause = "watchdog")
           /\ (epc = "wait" /\ epc' # "wait")
              => \/ epc' = "exec" /\ continue_requested /\ wait_count < MaxWaitPolls
                 \/ epc' = "term" /\ hist'.endCause = "watchdog"
           /\ hist.endCause = "watchdog"
              => /\ UNCHANGED <<pc, shellTick, shell>>
                 /\ epc' \in {"term", "done"} ]_vars
    /\ (epc = "wait") ~> (epc = "exec" \/ hist.terminated = 1)
    /\ (hist.endCause = "watchdog") ~> (epc = "done" /\ hist.terminated = 1)

\* the watchdog has ended a run at a stop and terminated was sent, the line
\* of the stop not run
C29_Witness ==
    /\ hist.endCause = "watchdog"
    /\ epc = "done"
    /\ hist.terminated = 1
    /\ current_line = Some(pc)
    /\ ~ continue_requested

\* the character at i of line l is escaped: an unescaped ^ stands before it
RECURSIVE IsEscaped(_, _)
IsEscaped(l, i) == i > 1 /\ l[i - 1] = "^" /\ ~ IsEscaped(l, i - 1)

\* the character at i of line l lies between double quotes
InsideQuotes(l, i) ==
    Cardinality({j \in 1 .. i - 1 : l[j] = "\"" /\ ~ IsEscaped(l, j)}) % 2 = 1

\* c stands at i of line l, unquoted and unescaped
BareAt(l, i, c) == l[i] = c /\ ~ IsEscaped(l, i) /\ ~ InsideQuotes(l, i)

\* position i starts a run of bare characters c in l; the length of that run
RunStart(l, i, c) == BareAt(l, i, c) /\ (i = 1 \/ ~ BareAt(l, i - 1, c))
RECURSIVE RunLen(_, _, _)
RunLen(l, i, c) == IF i <= Len(l) /\ BareAt(l, i, c) THEN 1 + RunLen(l, i + 1, c) ELSE 0

RECURSIVE SumOver(_, _)
SumOver(S, f) ==
    IF S = {} THEN 0 ELSE LET x == CHOOSE y \in S : TRUE IN f[x] + SumOver(S \ {x}, f)

\* the number of operators of l: in a run of n bare &, the pairs are && and
\* an odd one left is &; in a run of n bare |, only the pairs count
OperatorCount(l) ==
    SumOver({i \in DOMAIN l : RunStart(l, i, "&")},
            [i \in DOMAIN l |-> (RunLen(l, i, "&") + 1) \div 2])
    + SumOver({i \in DOMAIN l : RunStart(l, i, "|")},
              [i \in DOMAIN l |-> RunLen(l, i, "|") \div 2])

OpText(op) ==
    IF op = None THEN <<>>
    ELSE IF op = Some("And") THEN <<"&", "&">>
    ELSE IF op = Some("Or") THEN <<"|", "|">>
    ELSE <<"&">>

\* the parts written one after another, each followed by its operator
RECURSIVE Rejoined(_)
Rejoined(parts) ==
    IF parts = <<>> THEN <<>>
    ELSE Head(parts).text \o OpText(Head(parts).op) \o Rejoined(Tail(parts))

NoBlanks(s) == SelectSeq(s, LAMBDA c : ~ IsWhitespace(c))

\* what C31 says of every line but for its last part: the line is split at
\* its bare operators and nowhere else, the parts are in source order and
\* each is followed by its operator, and every part before the last has one
SplitAtBareOperators(l, parts) ==
    /\ Cardinality({k \in DOMAIN parts : parts[k].op # None}) = OperatorCount(l)
    /\ NoBlanks(Rejoined(parts)) = NoBlanks(l)
    /\ \A k \in 1 .. Len(parts) - 1 : parts[k].op # None
    /\ \A k \in DOMAIN parts : parts[k].text = Trim(parts[k].text)

\* C31 as stated: the line is split only at bare &, && and ||, the parts come
\* in source order with the operator that followed each, and the last part
\* carries no operator; `echo "a & b"` is one part and
\* `echo A & echo B && echo C` is three.
C31_SplitLastPartNoOperator ==
    (IsSome(ret) /\ Unwrap(ret).op = "split")
    => LET l == Unwrap(ret).line
           parts == Unwrap(ret).parts
       IN  /\ SplitAtBareOperators(l, parts)
           /\ parts # <<>> => parts[Len(parts)].op = None
           /\ l = LineQuoted => Len(parts) = 1
           /\ l = LineThree => Len(parts) = 3

\* C31: the line is split only at bare &, && and ||, a single | never
\* splits, the parts come in source order with the operator that followed
\* each; the last part carries no operator unless nothing but blanks follows
\* the last operator of the line, in which case no part is made of the
\* remainder and the last part carries that operator; `echo "a & b"` is one
\* part and `echo A & echo B && echo C` is three.
C31_SplitLastPartUnlessTrailing ==
    (IsSome(ret) /\ Unwrap(ret).op = "split")
    => LET l == Unwrap(ret).line
           parts == Unwrap(ret).parts
           tail == TrimEnd(l)
           n == Len(tail)
           trailing == \/ n > 0 /\ BareAt(tail, n, "&")
                       \/ \E i \in 1 .. n :
                             /\ RunStart(tail, i, "|")
                             /\ i + RunLen(tail, i, "|") - 1 = n
                             /\ RunLen(tail, i, "|") % 2 = 0
       IN  /\ SplitAtBareOperators(l, parts)
           /\ parts # <<>> => (parts[Len(parts)].op = None <=> ~ trailing)
           /\ l = LineQuoted => Len(parts) = 1
           /\ l = LineThree => Len(parts) = 3

\* `a&`: one part, which carries the operator
C31_Witness ==
    /\ IsSome(ret)
    /\ Unwrap(ret).op = "split"
    /\ Unwrap(ret).line = <<"a", "&">>
    /\ Unwrap(ret).parts = << [text |-> <<"a">>, op |-> Some("Unconditional")] >>

\* C32: once the stop event of a data breakpoint hit is sent, and until the
\* session raises continue_requested, the engine executes nothing: pc stays
\* and no shell run starts.
C32_DataStopPauses ==
    [][ (IsSome(data_breakpoint_hit) /\ ~ continue_requested)
        => UNCHANGED <<pc, shellTick>> ]_vars

\* C33: after a stepOut request handled at a stop with d >= 1 frames, the
\* engine passes every line it reaches with d or more frames and stops at the
\* first line it reaches with at most d - 1 frames.
C33_StepOutStopsInCaller ==
    [][ (IsSome(hist.out) /\ Unwrap(hist.out) >= 1 /\ mode = "StepOut"
         /\ epc = "top" /\ epc' \in {"send", "exec"}) =>
           (epc' = "send" <=> Len(call_stack) <= Unwrap(hist.out) - 1)
      ]_vars

\* the texts the session received during the step
NewCalls == SubSeq(session_log', Len(session_log) + 1, Len(session_log'))
\* the value the context shows for V
TrackedV(vars_, stack) ==
    LET visible == GetVisibleVariables(vars_, stack)
    IN  IF V \in DOMAIN visible THEN Some(visible[V]) ELSE None
PlainStepDone == IsSome(ret') /\ Unwrap(ret').op = "plain" /\ Unwrap(ret').ok /\ pc' = pc + 1

\* C34: a line executed as a plain command reaches the session exactly once,
\* and after a SET /A line the tracked value of its target is the
\* interpreter's value.
C34_PlainLineRunOnce ==
    [][ PlainStepDone =>
          /\ Cardinality({i \in DOMAIN NewCalls : NewCalls[i] = Unwrap(ret').line}) = 1
          /\ Unwrap(ret').line.op = "seta" =>
                TrackedV(variables', call_stack') = session_env'
      ]_vars

\* C35: when a SET /P line is executed, the query `echo %name%` reaches the
\* session after the line itself, and the value recorded for name is the
\* value the line assigned.
C35_PromptQueryAfterLine ==
    [][ (PlainStepDone /\ Unwrap(ret').line.op = "setp") =>
          /\ \E i, j \in DOMAIN NewCalls :
                /\ NewCalls[i] = Unwrap(ret').line
                /\ NewCalls[j] = EchoVar(Unwrap(ret').line.key)
                /\ i < j
          /\ TrackedV(variables', call_stack') = session_env'
      ]_vars

\* C36: data breakpoints are scanned after every shell call made for script
\* text: a plain command or a FOR line that leaves a watched variable with
\* a value other than the stored one adds a stop event.
C36_ScanAfterEveryShellCall ==
    [][ (IsSome(ret') /\ Unwrap(ret').ok /\ pc' = pc + 1
         /\ DataBreakpointHits(variables', call_stack', data_breakpoints) # {})
        => Len(event_ch') = Len(event_ch) + 1
      ]_vars

\* a label line or a REM / :: comment line
LabelOrComment(p) == p < NumLines /\ LineAt(p).op \in {"label", "rem"}

\* C37: the engine is never stopped at, never executes and never reports a
\* stop at a label or comment line; with such a line at pc the engine's only
\* step is pc + 1, which sends no event and starts no shell run, in every
\* mode and with a breakpoint on the line.
C37_LabelsAndCommentsSkipped ==
    /\ [](epc \in {"send", "clear", "wait", "exec", "shell"} => ~ LabelOrComment(pc))
    /\ [](\A i \in DOMAIN event_ch :
             event_ch[i][1] # "terminated" => ~ LabelOrComment(event_ch[i][2]))
    /\ [][ (epc = "top" /\ LabelOrComment(pc)) =>
              /\ epc' = "top"
              /\ pc' \in {pc, pc + 1}
              /\ shellTick' = shellTick
              /\ Len(event_ch') <= Len(event_ch)
              /\ Len(output_ch') <= Len(output_ch)
         ]_vars

\* the engine has passed the label `:a` of the nested script in Continue
\* mode with a breakpoint installed on the label's line
C37_Witness ==
    /\ script = 2 /\ pc = 3 /\ epc = "top"
    /\ mode = "Continue"
    /\ 2 \in DOMAIN breakpoints
    /\ Len(call_stack) = 1

\* a StepOut is in force that no should_stop_at has answered with a stop
StepOutPending == mode = "StepOut" /\ IsSome(hist.out)

\* C38 as stated: while a StepOut is pending the call stack is never shorter
\* than step_out_target_depth.
C38_DepthAtLeastTarget == StepOutPending => Len(call_stack) >= step_out_target_depth

\* C38, amended: handle_step_command("stepOut") leaves the target at the
\* depth minus one, so the depth is at least the target when the request is
\* made; nothing but a frame pop takes the depth below the target, the pop
\* leaves the target as it is, and should_stop_at answers a StepOut with a
\* stop whenever the depth is at or below the target.
C38_DepthBelowTargetOnlyByPop ==
    /\ [][ ApiHandleStepCommand("stepOut") =>
              /\ step_out_target_depth' = SaturatingDec(Len(call_stack'))
              /\ Len(call_stack') >= step_out_target_depth'
              /\ StepOutPending'
         ]_vars
    /\ [][ (Len(call_stack) >= step_out_target_depth
            /\ Len(call_stack') < step_out_target_depth') =>
              /\ call_stack # <<>>
              /\ call_stack' = Front(call_stack)
              /\ step_out_target_depth' = step_out_target_depth
              /\ IsSome(ret') /\ Unwrap(ret').op = "leave_context"
         ]_vars
    /\ [][ (StepOutPending /\ Len(call_stack) <= step_out_target_depth
            /\ IsSome(ret') /\ Unwrap(ret').op = "should_stop_at") =>
              Unwrap(ret').stop /\ ~ StepOutPending'
         ]_vars

\* a stepOut asked for with two frames is still pending after both frames
\* were popped: the depth is 0, the target 1
C38_Witness ==
    /\ StepOutPending
    /\ Unwrap(hist.out) = 2
    /\ step_out_target_depth = 1
    /\ call_stack = <<>>

\* C39: a frame whose scope is not active has no locals.  Locals change only
\* in a frame whose scope is active before and after the write, closing the
\* scope empties them, and on an empty call stack handle_setlocal and
\* handle_endlocal return the stack as it is.
C39_InactiveScopeHasNoLocals ==
    /\ [](\A i \in DOMAIN call_stack :
             ~ call_stack[i].has_setlocal => call_stack[i].locals = EmptyMap)
    /\ [](call_stack = <<>> =>
             HandleSetlocal(call_stack) = <<>> /\ HandleEndlocal(call_stack) = <<>>)
    /\ [][ \A i \in DOMAIN call_stack \cap DOMAIN call_stack' :
              /\ (call_stack'[i].locals # call_stack[i].locals
                  /\ call_stack'[i].locals # EmptyMap) =>
                     call_stack[i].has_setlocal /\ call_stack'[i].has_setlocal
              /\ (call_stack[i].has_setlocal /\ ~ call_stack'[i].has_setlocal) =>
                     call_stack'[i].locals = EmptyMap
         ]_vars

\* a frame without a scope, holding no locals, above a frame whose scope is
\* open and holds a local, after a write that went to the globals
C39_Witness ==
    /\ Len(call_stack) = 2
    /\ call_stack[1].has_setlocal /\ call_stack[1].locals # EmptyMap
    /\ ~ call_stack[2].has_setlocal /\ call_stack[2].locals = EmptyMap
    /\ variables # EmptyMap

\* C40: a handle_pushd that returns an error leaves the directory stack as
\* it was.
C40_FailedPushdKeepsStack ==
    [][ \A path \in {None} \cup {Some(T) : T \in PushdTargets}, ans \in ShellAnswers :
          (HandlePushd(path, ans) /\ ~ Unwrap(ret').ok)
          => directory_stack' = directory_stack ]_vars
=============================================================================
